---- MODULE Spec2Model ----
(***************************************************************************)
(* Model of the component distribution client: the content-addressed      *)
(* cache (ComponentCache / OciCache), the OCI component resolver and the   *)
(* top-level DistClient.  Strings are TLA+ strings, Option<T> is a         *)
(* sequence of length 0 (None) or 1 (Some), a Result is a record with an   *)
(* ok field.  The cache directory is a function from directory names       *)
(* (children of the cache root) to the files they hold.                    *)
(***************************************************************************)
EXTENDS Integers, Sequences, FiniteSets, TLC

VARIABLES cache, files, pulls, gets, opts, last, writers

vars == <<cache, files, pulls, gets, opts, last, writers>>

(***************************************************************************)
(* Bounds of the model.                                                    *)
(***************************************************************************)
MaxPulls == 2
MaxGets == 1
MaxRefs == 2

(***************************************************************************)
(* Option and Result.                                                      *)
(***************************************************************************)
None == <<>>
Some(x) == <<x>>
IsSome(o) == Len(o) = 1
IsNone(o) == Len(o) = 0
Unwrap(o) == o[1]

Ok(v) == [ok |-> TRUE, val |-> v]
Err(e) == [ok |-> FALSE, err |-> e]

(***************************************************************************)
(* String helpers (str::starts_with, str::find, trim_start_matches).       *)
(***************************************************************************)
StartsWith(s, p) == Len(s) >= Len(p) /\ SubSeq(s, 1, Len(p)) = p

RECURSIVE IndexFrom(_, _, _)
IndexFrom(s, ch, i) ==
    IF i > Len(s) THEN 0
    ELSE IF SubSeq(s, i, i) = ch THEN i
    ELSE IndexFrom(s, ch, i + 1)

IndexOf(s, ch) == IndexFrom(s, ch, 1)

Contains(s, ch) == IndexOf(s, ch) # 0

RECURSIVE TrimStartMatches(_, _)
TrimStartMatches(s, p) ==
    IF Len(p) > 0 /\ StartsWith(s, p)
    THEN TrimStartMatches(SubSeq(s, Len(p) + 1, Len(s)), p)
    ELSE s

PathJoin(a, b) == a \o "/" \o b

(***************************************************************************)
(* Artifact bytes and SHA-256.  The byte strings of the model and their    *)
(* real SHA-256 values (lowercase hex, as format!("{:x}") prints them).    *)
(***************************************************************************)
B1 == "wasm-bytes"
B2 == "hello-component"
Blobs == {B1, B2}

HexLen == 64

\* What a file holds when the write of bytes is cut short: nothing yet, or
\* the first half.
Prefixes(bytes) == {SubSeq(bytes, 1, k) : k \in {0, Len(bytes) \div 2}}

Sha256Hex(bytes) ==
    CASE bytes = B1 -> "7db53183cb05feb146262096c5622eb295fe8cdc909dcdcbad8fadb89b6898f7"
      [] bytes = B2 -> "f71b130bfd09a65421744d1db6f725b0f7febf5388b9e46e224cb55728b989c3"
      [] bytes = "" -> "e3b0c44298fc1c149afbf4c8996fb92427ae41e4649b934ca495991b7852b855"
      [] bytes = "wasm-" -> "88e60cfff93fd2c7631270e9b226d70ad079918c07db9d6651b93d37e68d1a83"
      [] bytes = "hello-c" -> "d6181a573586b0791647121c53a99f7bc209791a88d9e6e3f49f9c8e541306fd"

(***************************************************************************)
(* Digest utilities, src/dist.rs.                                          *)
(***************************************************************************)
digest_for_bytes(bytes) == "sha256:" \o Sha256Hex(bytes)

(***************************************************************************)
(* The strings the operations of the model are called with.                *)
(***************************************************************************)
D1 == digest_for_bytes(B1)
D2 == digest_for_bytes(B2)

\* OCI references: pinned to the digest of B1, tag only, and a string that
\* is no reference.
Pinned1 == "r/c@" \o D1
Tagged == "r/c:v1"
NotARef == "not a ref"
OciRefs == {Pinned1, Tagged, NotARef}

SrcFile == "/src/c.wasm"
HttpUrl == "http://h/c.wasm"
RepoRef == "repo://x"
StoreRef == "store://x"

\* A URL of scheme oci whose remainder is no OCI reference: what follows
\* the '@' is not a digest.
BadOciRef == "oci://r/c@sha256:bad"

\* References for resolve_ref and ensure_cached, one of each kind.
DistRefs ==
    {D1, HttpUrl, SrcFile, "oci://" \o Pinned1, Tagged, RepoRef, StoreRef, NotARef,
     BadOciRef}

\* Digests for fetch_digest and remove_cached: with and without the prefix.
DigestArgs == {D1, Sha256Hex(B2)}

\* The digests and references above.  A string function applied to one of
\* them is looked up in the table of its values (TrimmedDigests,
\* ParsedReferences, ...), which holds what the function's definition
\* gives; any other argument is computed by the definition.
KnownDigests == {D1, D2, Sha256Hex(B1), Sha256Hex(B2)}
KnownReferences == OciRefs \cup DistRefs \cup KnownDigests

trim_digest_prefix_of(digest) ==
    IF StartsWith(digest, "sha256:")
    THEN SubSeq(digest, Len("sha256:") + 1, Len(digest))
    ELSE TrimStartMatches(digest, "@")

TrimmedDigests == [digest \in KnownDigests |-> trim_digest_prefix_of(digest)]

trim_digest_prefix(digest) ==
    IF digest \in KnownDigests THEN TrimmedDigests[digest]
    ELSE trim_digest_prefix_of(digest)

normalize_digest(digest) ==
    IF StartsWith(digest, "sha256:") THEN digest ELSE "sha256:" \o digest

is_digest(s) == StartsWith(s, "sha256:") /\ Len(s) = Len("sha256:") + HexLen

(***************************************************************************)
(* Digest utilities, src/oci_components.rs (private copies).               *)
(***************************************************************************)
compute_digest(bytes) == "sha256:" \o Sha256Hex(bytes)

oci_normalize_digest(digest) ==
    IF StartsWith(digest, "sha256:") THEN digest ELSE "sha256:" \o digest

oci_trim_digest_prefix_of(digest) ==
    IF StartsWith(digest, "sha256:")
    THEN SubSeq(digest, Len("sha256:") + 1, Len(digest))
    ELSE TrimStartMatches(digest, "@")

OciTrimmedDigests == [digest \in KnownDigests |-> oci_trim_digest_prefix_of(digest)]

oci_trim_digest_prefix(digest) ==
    IF digest \in KnownDigests THEN OciTrimmedDigests[digest]
    ELSE oci_trim_digest_prefix_of(digest)

(***************************************************************************)
(* The file system.  CacheRoot is opts.cache_dir; a cache directory holds  *)
(* component.wasm (wasm) and metadata.json (meta), each present or not.    *)
(* files are the regular files outside the cache.                          *)
(***************************************************************************)
CacheRoot == "/cache"

DirEntry(wasm, meta) == [wasm |-> wasm, meta |-> meta]

DirExists(c, name) == name \in DOMAIN c

WasmExists(c, name) == name \in DOMAIN c /\ IsSome(c[name].wasm)

\* Path::exists for the paths the model can name.
PathExists(c, f, p) ==
    \/ p \in DOMAIN f
    \/ \E n \in DOMAIN c :
          \/ p = PathJoin(CacheRoot, n)
          \/ p = PathJoin(PathJoin(CacheRoot, n), "component.wasm") /\ IsSome(c[n].wasm)

\* fs::create_dir_all(dir).
CreateDirAll(c, name) ==
    IF name \in DOMAIN c THEN c
    ELSE [n \in DOMAIN c \cup {name} |->
             IF n = name THEN DirEntry(None, None) ELSE c[n]]

\* fs::create_dir_all(dir) followed by fs::write(dir/component.wasm, data).
WriteWasm(c, name, data) ==
    LET old == IF name \in DOMAIN c THEN c[name].meta ELSE None
    IN  [n \in DOMAIN c \cup {name} |->
            IF n = name THEN DirEntry(Some(data), old) ELSE c[n]]

\* fs::write(dir/metadata.json, buf) in an existing directory.
WriteMeta(c, name, metadata) ==
    [c EXCEPT ![name] = DirEntry(c[name].wasm, Some(metadata))]

\* fs::remove_dir_all(dir).
RemoveDirAll(c, name) == [n \in DOMAIN c \ {name} |-> c[n]]

(***************************************************************************)
(* OCI references.  ParseReference is what the resolver uses of            *)
(* oci_distribution's Reference::try_from: whether the string parses and   *)
(* the digest after '@'.  A reference holds no white space; the digest,    *)
(* when there is one, is sha256: followed by HexLen characters; what       *)
(* follows a ':' in the name is a port or a tag, never a '/'.              *)
(***************************************************************************)
ParseReferenceOf(s) ==
    LET at == IndexOf(s, "@")
        dg == IF at = 0 THEN None ELSE Some(SubSeq(s, at + 1, Len(s)))
        name == IF at = 0 THEN s ELSE SubSeq(s, 1, at - 1)
        colon == IndexOf(name, ":")
    IN  IF \/ Len(name) = 0
           \/ Contains(name, " ")
           \/ colon # 0 /\ colon < Len(name) /\ SubSeq(name, colon + 1, colon + 1) = "/"
           \/ IsSome(dg) /\ ~is_digest(Unwrap(dg))
        THEN [ok |-> FALSE, digest |-> None]
        ELSE [ok |-> TRUE, digest |-> dg]

ParsedReferences == [s \in KnownReferences |-> ParseReferenceOf(s)]

ParseReference(s) ==
    IF s \in KnownReferences THEN ParsedReferences[s] ELSE ParseReferenceOf(s)

(***************************************************************************)
(* OciCache, src/oci_components.rs.                                        *)
(***************************************************************************)
artifact_dirname(digest) == oci_trim_digest_prefix(digest)

artifact_dir(digest) == PathJoin(CacheRoot, artifact_dirname(digest))

artifact_path(digest) == PathJoin(artifact_dir(digest), "component.wasm")

metadata_path(digest) == PathJoin(artifact_dir(digest), "metadata.json")

\* fetched_at_unix_seconds is the wall clock at the write; nothing reads it
\* back, and it is left out of the record.
CacheMetadata(reference, digest, media_type, data, manifest_digest) ==
    [original_reference |-> reference,
     resolved_digest |-> digest,
     media_type |-> media_type,
     size_bytes |-> Len(data),
     manifest_digest |-> manifest_digest]

\* OciCache::write: the new cache directory contents; the returned path is
\* artifact_path(digest).
OciCacheWrite(c, digest, media_type, data, reference, manifest_digest) ==
    WriteMeta(WriteWasm(c, artifact_dirname(digest), data),
              artifact_dirname(digest),
              CacheMetadata(reference, digest, media_type, data, manifest_digest))

\* What a metadata.json holds when its write stopped part way: bytes that
\* serde_json does not parse.
TornMetadata == [torn |-> TRUE]

\* read_metadata(digest).ok(): the record, or none when the file is missing
\* or does not parse.
read_metadata(c, digest) ==
    IF DirExists(c, artifact_dirname(digest))
    THEN IF c[artifact_dirname(digest)].meta = Some(TornMetadata)
         THEN None
         ELSE c[artifact_dirname(digest)].meta
    ELSE None

ResolvedComponent(reference, digest, media_type, path, fetched, manifest_digest) ==
    [original_reference |-> reference,
     resolved_digest |-> digest,
     media_type |-> media_type,
     path |-> path,
     fetched_from_network |-> fetched,
     manifest_digest |-> manifest_digest]

\* try_hit that does not read the sidecar.
try_hit_blind(c, digest, reference) ==
    IF ~WasmExists(c, artifact_dirname(digest))
    THEN None
    ELSE Some(ResolvedComponent(reference, digest, "application/octet-stream",
                                artifact_path(digest), FALSE, None))

\* try_hit that finds nothing.
try_hit_never(c, digest, reference) == None

try_hit(c, digest, reference) ==
    IF ~WasmExists(c, artifact_dirname(digest))
    THEN None
    ELSE LET metadata == read_metadata(c, digest)
             media_type == IF IsSome(metadata)
                           THEN Unwrap(metadata).media_type
                           ELSE "application/octet-stream"
             manifest_digest == IF IsSome(metadata)
                                THEN Unwrap(metadata).manifest_digest
                                ELSE None
         IN  Some(ResolvedComponent(reference, digest, media_type,
                                    artifact_path(digest), FALSE, manifest_digest))

(***************************************************************************)
(* Layer selection.                                                        *)
(***************************************************************************)
DEFAULT_LAYER_MEDIA_TYPES ==
    <<"application/vnd.wasm.component.v1+wasm",
      "application/vnd.module.wasm.content.layer.v1+wasm",
      "application/vnd.greentic.component.manifest+json",
      "application/wasm",
      "application/octet-stream">>

PulledLayer(media_type, data, digest) ==
    [media_type |-> media_type, data |-> data, digest |-> digest]

PulledImage(digest, layers) == [digest |-> digest, layers |-> layers]

\* layers.iter().find(|l| l.media_type == ty): index of the first match, or 0.
RECURSIVE FindLayer(_, _, _)
FindLayer(layers, ty, i) ==
    IF i > Len(layers) THEN 0
    ELSE IF layers[i].media_type = ty THEN i
    ELSE FindLayer(layers, ty, i + 1)

\* Selection that goes through the layers first: the first layer whose media
\* type is among the preferred ones.
SelectPreferredByLayer(layers, preferred_types, k) ==
    LET preferred == {i \in 1..Len(layers) :
                         \E j \in k..Len(preferred_types) :
                             layers[i].media_type = preferred_types[j]}
    IN  IF preferred = {} THEN layers[1]
        ELSE layers[CHOOSE i \in preferred : \A j \in preferred : i <= j]

RECURSIVE SelectPreferred(_, _, _)
SelectPreferred(layers, preferred_types, k) ==
    IF k > Len(preferred_types) THEN layers[1]
    ELSE IF FindLayer(layers, preferred_types[k], 1) # 0
         THEN layers[FindLayer(layers, preferred_types[k], 1)]
         ELSE SelectPreferred(layers, preferred_types, k + 1)

select_layer(layers, preferred_types, reference) ==
    IF Len(layers) = 0
    THEN Err([kind |-> "MissingLayers", reference |-> reference])
    ELSE Ok(SelectPreferred(layers, preferred_types, 1))

(***************************************************************************)
(* OciComponentResolver.  w is the world a call acts on: the cache         *)
(* directory and the number of pulls the registry client has served.  o is *)
(* ComponentResolveOptions; resp is what RegistryClient::pull answers for  *)
(* this reference if it is asked.                                          *)
(***************************************************************************)
World(c, p, g) == [cache |-> c, pulls |-> p, gets |-> g]

Outcome(w, r) == [w |-> w, r |-> r]

\* pull_and_write that writes the entry before it compares the digests.
pull_and_write_early(w, o, reference, resp, expected_digest) ==
    LET pulled == [w EXCEPT !.pulls = @ + 1]
    IN  IF ~resp.ok
        THEN Outcome(pulled, Err([kind |-> "PullFailed", reference |-> reference]))
        ELSE
        LET image == resp.val
            chosen == select_layer(image.layers, o.preferred_layer_media_types, reference)
        IN  IF ~chosen.ok
            THEN Outcome(pulled, chosen)
            ELSE
            LET chosen_layer == chosen.val
                resolved_digest ==
                    IF IsSome(image.digest) THEN Unwrap(image.digest)
                    ELSE IF IsSome(chosen_layer.digest) THEN Unwrap(chosen_layer.digest)
                    ELSE compute_digest(chosen_layer.data)
                manifest_digest == image.digest
                written == [pulled EXCEPT !.cache =
                               OciCacheWrite(pulled.cache, resolved_digest,
                                             chosen_layer.media_type, chosen_layer.data,
                                             reference, manifest_digest)]
            IN  IF IsSome(expected_digest) /\ Unwrap(expected_digest) # resolved_digest
                THEN Outcome(written, Err([kind |-> "DigestMismatch",
                                           reference |-> reference,
                                           expected |-> Unwrap(expected_digest),
                                           actual |-> resolved_digest]))
                ELSE Outcome(written,
                             Ok(ResolvedComponent(reference, resolved_digest,
                                                  chosen_layer.media_type,
                                                  artifact_path(resolved_digest),
                                                  TRUE, manifest_digest)))

\* pull_and_write that compares the pinned digest with the digest the image
\* reports before it selects a layer.
pull_and_write_digest_first(w, o, reference, resp, expected_digest) ==
    LET pulled == [w EXCEPT !.pulls = @ + 1]
    IN  IF ~resp.ok
        THEN Outcome(pulled, Err([kind |-> "PullFailed", reference |-> reference]))
        ELSE IF /\ IsSome(expected_digest)
                /\ IsSome(resp.val.digest)
                /\ Unwrap(expected_digest) # Unwrap(resp.val.digest)
        THEN Outcome(pulled, Err([kind |-> "DigestMismatch",
                                  reference |-> reference,
                                  expected |-> Unwrap(expected_digest),
                                  actual |-> Unwrap(resp.val.digest)]))
        ELSE
        LET image == resp.val
            chosen == select_layer(image.layers, o.preferred_layer_media_types, reference)
        IN  IF ~chosen.ok
            THEN Outcome(pulled, chosen)
            ELSE
            LET chosen_layer == chosen.val
                resolved_digest ==
                    IF IsSome(image.digest) THEN Unwrap(image.digest)
                    ELSE IF IsSome(chosen_layer.digest) THEN Unwrap(chosen_layer.digest)
                    ELSE compute_digest(chosen_layer.data)
                manifest_digest == image.digest
            IN  IF IsSome(expected_digest) /\ Unwrap(expected_digest) # resolved_digest
                THEN Outcome(pulled, Err([kind |-> "DigestMismatch",
                                          reference |-> reference,
                                          expected |-> Unwrap(expected_digest),
                                          actual |-> resolved_digest]))
                ELSE Outcome(
                       [pulled EXCEPT !.cache =
                           OciCacheWrite(pulled.cache, resolved_digest,
                                         chosen_layer.media_type, chosen_layer.data,
                                         reference, manifest_digest)],
                       Ok(ResolvedComponent(reference, resolved_digest,
                                            chosen_layer.media_type,
                                            artifact_path(resolved_digest),
                                            TRUE, manifest_digest)))

\* pull_and_write that takes the digest of the chosen layer before the digest
\* of the image.
pull_and_write_layer_digest(w, o, reference, resp, expected_digest) ==
    LET pulled == [w EXCEPT !.pulls = @ + 1]
    IN  IF ~resp.ok
        THEN Outcome(pulled, Err([kind |-> "PullFailed", reference |-> reference]))
        ELSE
        LET image == resp.val
            chosen == select_layer(image.layers, o.preferred_layer_media_types, reference)
        IN  IF ~chosen.ok
            THEN Outcome(pulled, chosen)
            ELSE
            LET chosen_layer == chosen.val
                resolved_digest ==
                    IF IsSome(chosen_layer.digest) THEN Unwrap(chosen_layer.digest)
                    ELSE IF IsSome(image.digest) THEN Unwrap(image.digest)
                    ELSE compute_digest(chosen_layer.data)
                manifest_digest == image.digest
            IN  IF IsSome(expected_digest) /\ Unwrap(expected_digest) # resolved_digest
                THEN Outcome(pulled, Err([kind |-> "DigestMismatch",
                                          reference |-> reference,
                                          expected |-> Unwrap(expected_digest),
                                          actual |-> resolved_digest]))
                ELSE Outcome(
                       [pulled EXCEPT !.cache =
                           OciCacheWrite(pulled.cache, resolved_digest,
                                         chosen_layer.media_type, chosen_layer.data,
                                         reference, manifest_digest)],
                       Ok(ResolvedComponent(reference, resolved_digest,
                                            chosen_layer.media_type,
                                            artifact_path(resolved_digest),
                                            TRUE, manifest_digest)))

\* The second half of resolve_single: pull, select the layer, settle the
\* digest, compare it with the pinned one, write the entry.
pull_and_write(w, o, reference, resp, expected_digest) ==
    LET pulled == [w EXCEPT !.pulls = @ + 1]
    IN  IF ~resp.ok
        THEN Outcome(pulled, Err([kind |-> "PullFailed", reference |-> reference]))
        ELSE
        LET image == resp.val
            chosen == select_layer(image.layers, o.preferred_layer_media_types, reference)
        IN  IF ~chosen.ok
            THEN Outcome(pulled, chosen)
            ELSE
            LET chosen_layer == chosen.val
                resolved_digest ==
                    IF IsSome(image.digest) THEN Unwrap(image.digest)
                    ELSE IF IsSome(chosen_layer.digest) THEN Unwrap(chosen_layer.digest)
                    ELSE compute_digest(chosen_layer.data)
                manifest_digest == image.digest
            IN  IF IsSome(expected_digest) /\ Unwrap(expected_digest) # resolved_digest
                THEN Outcome(pulled, Err([kind |-> "DigestMismatch",
                                          reference |-> reference,
                                          expected |-> Unwrap(expected_digest),
                                          actual |-> resolved_digest]))
                ELSE Outcome(
                       [pulled EXCEPT !.cache =
                           OciCacheWrite(pulled.cache, resolved_digest,
                                         chosen_layer.media_type, chosen_layer.data,
                                         reference, manifest_digest)],
                       Ok(ResolvedComponent(reference, resolved_digest,
                                            chosen_layer.media_type,
                                            artifact_path(resolved_digest),
                                            TRUE, manifest_digest)))

\* resolve_single that goes to the registry when offline.
resolve_single_ungated(w, o, reference, resp) ==
    LET parsed == ParseReference(reference)
        expected_digest == IF IsSome(parsed.digest)
                           THEN Some(oci_normalize_digest(Unwrap(parsed.digest)))
                           ELSE None
        hit == IF IsSome(expected_digest)
               THEN try_hit(w.cache, Unwrap(expected_digest), reference)
               ELSE None
    IN  IF ~parsed.ok
        THEN Outcome(w, Err([kind |-> "InvalidReference", reference |-> reference]))
        ELSE IF IsNone(parsed.digest) /\ ~o.allow_tags
        THEN Outcome(w, Err([kind |-> "DigestRequired", reference |-> reference]))
        ELSE IF IsSome(expected_digest) /\ IsSome(hit)
        THEN Outcome(w, Ok(Unwrap(hit)))
        ELSE pull_and_write(w, o, reference, resp, expected_digest)

\* resolve_single that looks at the offline flag before the tag policy.
resolve_single_offline_first(w, o, reference, resp) ==
    LET parsed == ParseReference(reference)
        expected_digest == IF IsSome(parsed.digest)
                           THEN Some(oci_normalize_digest(Unwrap(parsed.digest)))
                           ELSE None
        hit == IF IsSome(expected_digest)
               THEN try_hit(w.cache, Unwrap(expected_digest), reference)
               ELSE None
    IN  IF ~parsed.ok
        THEN Outcome(w, Err([kind |-> "InvalidReference", reference |-> reference]))
        ELSE IF IsSome(expected_digest) /\ IsSome(hit)
        THEN Outcome(w, Ok(Unwrap(hit)))
        ELSE IF IsSome(expected_digest) /\ o.offline
        THEN Outcome(w, Err([kind |-> "OfflineMissing", reference |-> reference,
                             digest |-> Unwrap(expected_digest)]))
        ELSE IF o.offline
        THEN Outcome(w, Err([kind |-> "OfflineTaggedReference", reference |-> reference]))
        ELSE IF IsNone(parsed.digest) /\ ~o.allow_tags
        THEN Outcome(w, Err([kind |-> "DigestRequired", reference |-> reference]))
        ELSE pull_and_write(w, o, reference, resp, expected_digest)

\* The entries of the cache directory that an earlier resolution of the
\* reference wrote.
WrittenFor(c, reference) ==
    {n \in DOMAIN c : /\ IsSome(c[n].wasm)
                      /\ IsSome(read_metadata(c, "sha256:" \o n))
                      /\ Unwrap(read_metadata(c, "sha256:" \o n)).original_reference
                             = reference}

\* resolve_single that answers a tag reference from the cache when an
\* earlier resolution of it left an entry.
resolve_single_tag_hit(w, o, reference, resp) ==
    LET parsed == ParseReference(reference)
        expected_digest == IF IsSome(parsed.digest)
                           THEN Some(oci_normalize_digest(Unwrap(parsed.digest)))
                           ELSE None
        hit == IF IsSome(expected_digest)
               THEN try_hit(w.cache, Unwrap(expected_digest), reference)
               ELSE IF WrittenFor(w.cache, reference) # {}
               THEN try_hit(w.cache,
                            "sha256:" \o (CHOOSE n \in WrittenFor(w.cache, reference) : TRUE),
                            reference)
               ELSE None
    IN  IF ~parsed.ok
        THEN Outcome(w, Err([kind |-> "InvalidReference", reference |-> reference]))
        ELSE IF IsNone(parsed.digest) /\ ~o.allow_tags
        THEN Outcome(w, Err([kind |-> "DigestRequired", reference |-> reference]))
        ELSE IF IsSome(hit)
        THEN Outcome(w, Ok(Unwrap(hit)))
        ELSE IF IsSome(expected_digest) /\ o.offline
        THEN Outcome(w, Err([kind |-> "OfflineMissing", reference |-> reference,
                             digest |-> Unwrap(expected_digest)]))
        ELSE IF o.offline
        THEN Outcome(w, Err([kind |-> "OfflineTaggedReference", reference |-> reference]))
        ELSE pull_and_write(w, o, reference, resp, expected_digest)

\* The first half of resolve_single: parse, the tag policy, the cache lookup
\* and the offline gate.
resolve_single(w, o, reference, resp) ==
    LET parsed == ParseReference(reference)
        expected_digest == IF IsSome(parsed.digest)
                           THEN Some(oci_normalize_digest(Unwrap(parsed.digest)))
                           ELSE None
        hit == IF IsSome(expected_digest)
               THEN try_hit(w.cache, Unwrap(expected_digest), reference)
               ELSE None
    IN  IF ~parsed.ok
        THEN Outcome(w, Err([kind |-> "InvalidReference", reference |-> reference]))
        ELSE IF IsNone(parsed.digest) /\ ~o.allow_tags
        THEN Outcome(w, Err([kind |-> "DigestRequired", reference |-> reference]))
        ELSE IF IsSome(expected_digest) /\ IsSome(hit)
        THEN Outcome(w, Ok(Unwrap(hit)))
        ELSE IF IsSome(expected_digest) /\ o.offline
        THEN Outcome(w, Err([kind |-> "OfflineMissing", reference |-> reference,
                             digest |-> Unwrap(expected_digest)]))
        ELSE IF o.offline
        THEN Outcome(w, Err([kind |-> "OfflineTaggedReference", reference |-> reference]))
        ELSE pull_and_write(w, o, reference, resp, expected_digest)

\* resolve_refs: the references in order, stopping at the first error.  The
\* outcome keeps the local vector results as it stood when the call returned.
RECURSIVE resolve_refs_from(_, _, _, _, _, _)

\* results.push(one), or the error of the `?`, then the next reference.
resolve_refs_push(one, o, refs, resps, i, results) ==
    IF ~one.r.ok
    THEN [w |-> one.w, r |-> one.r, results |-> results]
    ELSE resolve_refs_from(one.w, o, refs, resps, i + 1, Append(results, one.r.val))

resolve_refs_from(w, o, refs, resps, i, results) ==
    IF i > Len(refs)
    THEN [w |-> w, r |-> Ok(results), results |-> results]
    ELSE resolve_refs_push(resolve_single(w, o, refs[i], resps[i]),
                           o, refs, resps, i, results)

resolve_refs(w, o, refs, resps) == resolve_refs_from(w, o, refs, resps, 1, <<>>)

(***************************************************************************)
(* Reference classification, src/dist.rs.                                  *)
(***************************************************************************)
\* Url::parse(input).scheme(): the text before the first ':' when it can be a
\* URL scheme; a string with no scheme is a relative URL and does not parse.
UrlSchemeOf(input) ==
    LET colon == IndexOf(input, ":")
        scheme == SubSeq(input, 1, colon - 1)
    IN  IF colon <= 1 \/ Contains(scheme, "/") \/ Contains(scheme, "@")
           \/ Contains(scheme, " ")
        THEN None
        ELSE Some(scheme)

UrlSchemes == [input \in KnownReferences |-> UrlSchemeOf(input)]

UrlScheme(input) ==
    IF input \in KnownReferences THEN UrlSchemes[input] ELSE UrlSchemeOf(input)

\* Url::to_file_path for a file URL with an empty host.
UrlToFilePath(input) ==
    IF StartsWith(input, "file:///")
    THEN Some(SubSeq(input, Len("file://") + 1, Len(input)))
    ELSE None

RefKind(kind, val) == [kind |-> kind, val |-> val]

\* Classification that looks for an existing path before it looks at the
\* URL scheme.
classify_reference_path_first(c, f, input) ==
    IF is_digest(input) THEN Ok(RefKind("Digest", normalize_digest(input)))
    ELSE IF PathExists(c, f, input) THEN Ok(RefKind("File", input))
    ELSE IF IsNone(UrlScheme(input))
    THEN IF ParseReference(input).ok THEN Ok(RefKind("Oci", input))
         ELSE Err([kind |-> "InvalidReference", reference |-> input])
    ELSE CASE Unwrap(UrlScheme(input)) \in {"http", "https"} -> Ok(RefKind("Http", input))
           [] Unwrap(UrlScheme(input)) = "file" /\ IsSome(UrlToFilePath(input)) ->
                Ok(RefKind("File", Unwrap(UrlToFilePath(input))))
           [] Unwrap(UrlScheme(input)) = "oci" ->
                Ok(RefKind("Oci", TrimStartMatches(input, "oci://")))
           [] Unwrap(UrlScheme(input)) = "repo" -> Ok(RefKind("Repo", input))
           [] Unwrap(UrlScheme(input)) = "store" -> Ok(RefKind("Store", input))
           [] OTHER -> IF ParseReference(input).ok THEN Ok(RefKind("Oci", input))
                       ELSE Err([kind |-> "InvalidReference", reference |-> input])

classify_reference(c, f, input) ==
    LET scheme == UrlScheme(input)
        by_path == IF PathExists(c, f, input)
                   THEN Ok(RefKind("File", input))
                   ELSE IF ParseReference(input).ok
                   THEN Ok(RefKind("Oci", input))
                   ELSE Err([kind |-> "InvalidReference", reference |-> input])
    IN  IF is_digest(input)
        THEN Ok(RefKind("Digest", normalize_digest(input)))
        ELSE IF IsNone(scheme) THEN by_path
        ELSE CASE Unwrap(scheme) \in {"http", "https"} -> Ok(RefKind("Http", input))
               [] Unwrap(scheme) = "file" ->
                    IF IsSome(UrlToFilePath(input))
                    THEN Ok(RefKind("File", Unwrap(UrlToFilePath(input))))
                    ELSE by_path
               [] Unwrap(scheme) = "oci" ->
                    Ok(RefKind("Oci", TrimStartMatches(input, "oci://")))
               [] Unwrap(scheme) = "repo" -> Ok(RefKind("Repo", input))
               [] Unwrap(scheme) = "store" -> Ok(RefKind("Store", input))
               [] OTHER -> by_path

(***************************************************************************)
(* ComponentCache, src/dist.rs.                                            *)
(***************************************************************************)
component_dirname(digest) == trim_digest_prefix(normalize_digest(digest))

component_dir(digest) == PathJoin(CacheRoot, component_dirname(digest))

component_path(digest) == PathJoin(component_dir(digest), "component.wasm")

\* existing_component that does not look at the file system.
existing_component_unchecked(c, digest) == Some(component_path(digest))

\* existing_component that probes the directory, not the file in it.
existing_component_dir(c, digest) ==
    IF DirExists(c, component_dirname(digest))
    THEN Some(component_path(digest))
    ELSE None

existing_component(c, digest) ==
    IF WasmExists(c, component_dirname(digest))
    THEN Some(component_path(digest))
    ELSE None

\* write_component that appends to a component.wasm that is there.
write_component_append(c, digest, data) ==
    IF WasmExists(c, component_dirname(digest))
    THEN WriteWasm(c, component_dirname(digest),
                   Unwrap(c[component_dirname(digest)].wasm) \o data)
    ELSE WriteWasm(c, component_dirname(digest), data)

\* write_component: the new cache directory contents; the returned path is
\* component_path(digest).
write_component(c, digest, data) == WriteWasm(c, component_dirname(digest), data)

\* The digests of list_digests; read_dir gives them in no particular order.
list_digests(c) == {"sha256:" \o name : name \in DOMAIN c}

\* fs::read of a path the model can name.
ReadFile(c, f, p) ==
    IF p \in DOMAIN f THEN Some(f[p])
    ELSE IF \E n \in DOMAIN c :
               p = PathJoin(PathJoin(CacheRoot, n), "component.wasm") /\ IsSome(c[n].wasm)
    THEN LET n == CHOOSE n \in DOMAIN c :
                     p = PathJoin(PathJoin(CacheRoot, n), "component.wasm")
         IN  c[n].wasm
    ELSE None

(***************************************************************************)
(* DistClient, src/dist.rs.  o is DistOptions; f is the files outside the  *)
(* cache; env is what the network answers during the call: env.get the     *)
(* HTTP server's response to a GET, env.pull the registry's to a pull.     *)
(***************************************************************************)
ResolvedArtifact(digest, cache_path, fetched, source) ==
    [digest |-> digest, cache_path |-> cache_path, fetched |-> fetched,
     source |-> source]

ArtifactSource(kind, val) == [kind |-> kind, val |-> val]

\* DistClient::new: the options handed to the OCI resolver.
OciOptions(o) ==
    [allow_tags |-> o.allow_tags,
     offline |-> o.offline,
     preferred_layer_media_types |-> DEFAULT_LAYER_MEDIA_TYPES]

\* fetch_http without the offline gate.
fetch_http_ungated(w, o, url, env) ==
    LET sent == [w EXCEPT !.gets = @ + 1]
    IN  IF ~env.get.ok
        THEN Outcome(sent, Err([kind |-> "Http"]))
        ELSE LET bytes == env.get.val
                 digest == digest_for_bytes(bytes)
             IN  Outcome([sent EXCEPT !.cache = write_component(sent.cache, digest, bytes)],
                         Ok(ResolvedArtifact(digest, Some(component_path(digest)), TRUE,
                                             ArtifactSource("Http", url))))

\* The server's response to the GET that follows w.gets others.  A server
\* whose responses change during a call is env.answers, the responses to
\* the GETs of the call in order (the last one from then on), with env.from
\* the GETs made before the call.
Served(env, w) ==
    IF "answers" \in DOMAIN env
    THEN env.answers[IF w.gets - env.from + 1 < Len(env.answers)
                     THEN w.gets - env.from + 1
                     ELSE Len(env.answers)]
    ELSE env.get

fetch_http(w, o, url, env) ==
    LET sent == [w EXCEPT !.gets = @ + 1]
    IN  IF o.offline
        THEN Outcome(w, Err([kind |-> "Offline", reference |-> url]))
        ELSE IF ~Served(env, w).ok
        THEN Outcome(sent, Err([kind |-> "Http"]))
        ELSE LET bytes == Served(env, w).val
                 digest == digest_for_bytes(bytes)
             IN  Outcome([sent EXCEPT !.cache = write_component(sent.cache, digest, bytes)],
                         Ok(ResolvedArtifact(digest, Some(component_path(digest)), TRUE,
                                             ArtifactSource("Http", url))))

ingest_file(w, f, path) ==
    LET read == ReadFile(w.cache, f, path)
    IN  IF IsNone(read)
        THEN Outcome(w, Err([kind |-> "Io"]))
        ELSE LET bytes == Unwrap(read)
                 digest == digest_for_bytes(bytes)
             IN  Outcome([w EXCEPT !.cache = write_component(w.cache, digest, bytes)],
                         Ok(ResolvedArtifact(digest, Some(component_path(digest)), TRUE,
                                             ArtifactSource("File", path))))

\* What pull_oci makes of the resolver's answer for its one reference.
pull_oci_result(result, reference) ==
    IF ~result.r.ok
    THEN Outcome(result.w, Err([kind |-> "Oci", source |-> result.r.err]))
    ELSE IF Len(result.r.val) = 0
    THEN Outcome(result.w, Err([kind |-> "InvalidReference", reference |-> reference]))
    ELSE Outcome(result.w,
                 Ok(ResolvedArtifact(result.r.val[1].resolved_digest,
                                     Some(result.r.val[1].path),
                                     result.r.val[1].fetched_from_network,
                                     ArtifactSource("Oci", reference))))

pull_oci(w, o, reference, env) ==
    IF o.offline
    THEN Outcome(w, Err([kind |-> "Offline", reference |-> reference]))
    ELSE pull_oci_result(resolve_refs(w, OciOptions(o), <<reference>>, <<env.pull>>),
                         reference)

\* resolve_kind that refuses a repository or store offline, before it asks
\* for credentials.
resolve_kind_offline_first(w, f, o, kind, env) ==
    IF ~kind.ok THEN Outcome(w, kind)
    ELSE IF kind.val.kind \in {"Repo", "Store"} /\ o.offline
    THEN Outcome(w, Err([kind |-> "Offline", reference |-> kind.val.val]))
    ELSE CASE kind.val.kind = "Digest" ->
                Outcome(w, Ok(ResolvedArtifact(kind.val.val,
                                               existing_component(w.cache, kind.val.val),
                                               FALSE,
                                               ArtifactSource("Digest", None))))
           [] kind.val.kind = "Http" -> fetch_http(w, o, kind.val.val, env)
           [] kind.val.kind = "File" -> ingest_file(w, f, kind.val.val)
           [] kind.val.kind = "Oci" -> pull_oci(w, o, kind.val.val, env)
           [] kind.val.kind \in {"Repo", "Store"} ->
                Outcome(w, Err([kind |-> "AuthRequired", target |-> kind.val.val]))

\* The match of resolve_ref on the classified reference.
resolve_kind(w, f, o, kind, env) ==
    IF ~kind.ok THEN Outcome(w, kind)
    ELSE CASE kind.val.kind = "Digest" ->
                Outcome(w, Ok(ResolvedArtifact(kind.val.val,
                                               existing_component(w.cache, kind.val.val),
                                               FALSE,
                                               ArtifactSource("Digest", None))))
           [] kind.val.kind = "Http" -> fetch_http(w, o, kind.val.val, env)
           [] kind.val.kind = "File" -> ingest_file(w, f, kind.val.val)
           [] kind.val.kind = "Oci" -> pull_oci(w, o, kind.val.val, env)
           [] kind.val.kind \in {"Repo", "Store"} ->
                Outcome(w, Err([kind |-> "AuthRequired", target |-> kind.val.val]))

resolve_ref(w, f, o, reference, env) ==
    resolve_kind(w, f, o, classify_reference(w.cache, f, reference), env)

\* ensure_cached that returns what resolve_ref returned.
ensure_cached_unchecked(resolved, f, reference) == resolved

\* The check ensure_cached makes on what resolve_ref returned.
ensure_cached_check(resolved, f, reference) ==
    IF ~resolved.r.ok THEN resolved
    ELSE IF /\ IsSome(resolved.r.val.cache_path)
            /\ PathExists(resolved.w.cache, f, Unwrap(resolved.r.val.cache_path))
    THEN resolved
    ELSE Outcome(resolved.w, Err([kind |-> "CacheMiss", reference |-> reference]))

ensure_cached(w, f, o, reference, env) ==
    ensure_cached_check(resolve_ref(w, f, o, reference, env), f, reference)

\* DistError::exit_code.
exit_code(err) ==
    CASE err.kind \in {"InvalidReference", "InvalidInput", "Serde"} -> 2
      [] err.kind = "CacheMiss" -> 3
      [] err.kind = "Offline" -> 4
      [] err.kind = "AuthRequired" -> 5
      [] OTHER -> 10

fetch_digest(w, digest) ==
    LET normalized == normalize_digest(digest)
        found == existing_component(w.cache, normalized)
    IN  IF IsSome(found)
        THEN Outcome(w, Ok(Unwrap(found)))
        ELSE Outcome(w, Err([kind |-> "CacheMiss", reference |-> normalized]))

list_cache(w) == list_digests(w.cache)

RECURSIVE remove_cached_from(_, _, _)
remove_cached_from(c, digests, i) ==
    IF i > Len(digests) THEN c
    ELSE remove_cached_from(
            IF DirExists(c, component_dirname(digests[i]))
            THEN RemoveDirAll(c, component_dirname(digests[i]))
            ELSE c,
            digests, i + 1)

\* remove_cached that stops after the first digest.
remove_cached_first(w, digests) ==
    Outcome([w EXCEPT !.cache = IF digests = <<>> THEN @
                                ELSE remove_cached_from(@, <<digests[1]>>, 1)],
            Ok(None))

remove_cached(w, digests) ==
    Outcome([w EXCEPT !.cache = remove_cached_from(w.cache, digests, 1)], Ok(None))

\* gc that goes by metadata.json: the directories without one are removed
\* and returned.
gc_by_sidecar(w, stuck) ==
    LET removed == {digest \in list_digests(w.cache) :
                       IsNone(w.cache[component_dirname(digest)].meta)}
        gone == {component_dirname(digest) : digest \in removed} \ stuck
    IN  Outcome([w EXCEPT !.cache = [n \in DOMAIN w.cache \ gone |-> w.cache[n]]],
                Ok(removed))

\* gc: the digests whose directory holds no component.wasm are returned;
\* their directories are removed, but for those in stuck, where
\* fs::remove_dir_all fails and gc drops the error.
gc(w, stuck) ==
    LET removed == {digest \in list_digests(w.cache) :
                       ~WasmExists(w.cache, component_dirname(digest))}
        gone == {component_dirname(digest) : digest \in removed} \ stuck
    IN  Outcome([w EXCEPT !.cache = [n \in DOMAIN w.cache \ gone |-> w.cache[n]]],
                Ok(removed))

(***************************************************************************)
(* The lockfile.  A JSON document is a record: a string, a number, an      *)
(* array (a sequence of documents) or an object (a function from keys to   *)
(* documents); Malformed is text that is not JSON.                         *)
(***************************************************************************)
JString(s) == [t |-> "string", str |-> s]
JNumber(n) == [t |-> "number", num |-> n]
JArray(a) == [t |-> "array", arr |-> a]
JObject(m) == [t |-> "object", obj |-> m]
JNull == [t |-> "null"]
Malformed == [t |-> "malformed"]

\* An Option<String> field of LockComponent: absent, or a JSON string.
\* Option<String>: the key absent, null, or a string.
FieldOk(j, key) == key \notin DOMAIN j.obj \/ j.obj[key].t \in {"string", "null"}

Field(j, key) ==
    IF key \in DOMAIN j.obj /\ j.obj[key].t = "string"
    THEN Some(j.obj[key].str)
    ELSE None

\* serde(untagged) LockEntry: a string, or an object whose known keys are strings.
LockEntryOk(j) ==
    \/ j.t = "string"
    \/ /\ j.t = "object"
       /\ \A key \in {"reference", "ref", "digest", "name"} : FieldOk(j, key)

LockResolvedEntry(reference, digest) == [reference |-> reference, digest |-> digest]

\* to_resolved that looks at ref before reference.
to_resolved_ref_first(j) ==
    IF j.t = "string"
    THEN LockResolvedEntry(Some(j.str), None)
    ELSE LockResolvedEntry(
            IF IsSome(Field(j, "ref")) THEN Field(j, "ref")
            ELSE IF IsSome(Field(j, "reference")) THEN Field(j, "reference")
            ELSE Field(j, "digest"),
            Field(j, "digest"))

to_resolved(j) ==
    IF j.t = "string"
    THEN LockResolvedEntry(Some(j.str), None)
    ELSE LockResolvedEntry(
            IF IsSome(Field(j, "reference")) THEN Field(j, "reference")
            ELSE IF IsSome(Field(j, "ref")) THEN Field(j, "ref")
            ELSE Field(j, "digest"),
            Field(j, "digest"))

EntriesOk(a) == \A i \in 1..Len(a) : LockEntryOk(a[i])

Resolved(a) == [i \in 1..Len(a) |-> to_resolved(a[i])]

\* parse_lockfile: the flat list first, then the LockFile wrapper (which serde
\* reads from an object by key, or from an array by position).
parse_lockfile(data) ==
    IF data.t = "array" /\ EntriesOk(data.arr)
    THEN Ok(Resolved(data.arr))
    ELSE IF data.t = "object"
    THEN IF /\ "schema_version" \in DOMAIN data.obj =>
                  data.obj["schema_version"].t = "number"
            /\ "components" \in DOMAIN data.obj =>
                  /\ data.obj["components"].t = "array"
                  /\ EntriesOk(data.obj["components"].arr)
         THEN Ok(IF "components" \in DOMAIN data.obj
                 THEN Resolved(data.obj["components"].arr)
                 ELSE <<>>)
         ELSE Err([kind |-> "Serde"])
    ELSE IF data.t = "array"
    THEN IF /\ Len(data.arr) <= 2
            /\ Len(data.arr) >= 1 => data.arr[1].t = "number"
            /\ Len(data.arr) >= 2 =>
                  data.arr[2].t = "array" /\ EntriesOk(data.arr[2].arr)
         THEN Ok(IF Len(data.arr) >= 2 THEN Resolved(data.arr[2].arr) ELSE <<>>)
         ELSE Err([kind |-> "Serde"])
    ELSE Err([kind |-> "Serde"])

\* with_digest that leaves the digest of resolved_item in place.
with_digest_kept(item, digest) == item

\* ResolvedArtifact { digest, ..resolved_item }, or the error of the `?`.
with_digest(item, digest) ==
    IF item.r.ok
    THEN Outcome(item.w, Ok([item.r.val EXCEPT !.digest = digest]))
    ELSE item

\* resolved_item: what ensure_cached(cache_key) returned when that is Ok,
\* otherwise ensure_cached(reference).
resolved_item(by_key, f, o, reference, env) ==
    IF by_key.r.ok THEN by_key
    ELSE ensure_cached(by_key.w, f, o, reference, env)

\* pull_lock_cached that asks for the reference before the cache key.
pull_lock_cached_reference_first(w, f, o, cache_key, reference, env, digest) ==
    with_digest(resolved_item(ensure_cached(w, f, o, reference, env),
                              f, o, cache_key, env),
                digest)

\* The rest of an iteration once digest is settled.
pull_lock_cached(w, f, o, cache_key, reference, env, digest) ==
    with_digest(resolved_item(ensure_cached(w, f, o, cache_key, env),
                              f, o, reference, env),
                digest)

\* pull_lock_unpinned that keeps what resolve_ref returned.
pull_lock_unpinned_once(first, f, o, reference, env) == first

\* An entry without a digest, online: first is resolve_ref(reference).
pull_lock_unpinned(first, f, o, reference, env) ==
    IF ~first.r.ok THEN first
    ELSE pull_lock_cached(first.w, f, o, reference, reference, env,
                          first.r.val.digest)

\* pull_lock_entry that tests offline after resolve_ref, not before.
pull_lock_entry_late(w, f, o, entry, env) ==
    IF IsNone(entry.reference)
    THEN Outcome(w, Err([kind |-> "InvalidInput", msg |-> "lock entry missing ref"]))
    ELSE IF IsSome(entry.digest)
    THEN pull_lock_cached(w, f, o, Unwrap(entry.digest), Unwrap(entry.reference),
                          env, Unwrap(entry.digest))
    ELSE pull_lock_unpinned(resolve_ref(w, f, o, Unwrap(entry.reference), env),
                            f, o, Unwrap(entry.reference), env)

\* One iteration of the loop of pull_lock.
pull_lock_entry(w, f, o, entry, env) ==
    IF IsNone(entry.reference)
    THEN Outcome(w, Err([kind |-> "InvalidInput", msg |-> "lock entry missing ref"]))
    ELSE IF IsSome(entry.digest)
    THEN pull_lock_cached(w, f, o, Unwrap(entry.digest), Unwrap(entry.reference),
                          env, Unwrap(entry.digest))
    ELSE IF o.offline
    THEN Outcome(w, Err([kind |-> "Offline", reference |-> Unwrap(entry.reference)]))
    ELSE pull_lock_unpinned(resolve_ref(w, f, o, Unwrap(entry.reference), env),
                            f, o, Unwrap(entry.reference), env)

RECURSIVE pull_lock_from(_, _, _, _, _, _, _)

\* pull_lock_push that puts the item in front of the vector.
pull_lock_push_front(item, f, o, entries, env, i, resolved) ==
    IF ~item.r.ok THEN item
    ELSE pull_lock_from(item.w, f, o, entries, env, i + 1,
                        <<item.r.val>> \o resolved)

\* pull_lock_push that goes on to the next entry after an error.
pull_lock_push_on(item, f, o, entries, env, i, resolved) ==
    IF ~item.r.ok
    THEN pull_lock_from(item.w, f, o, entries, env, i + 1, resolved)
    ELSE pull_lock_from(item.w, f, o, entries, env, i + 1,
                        Append(resolved, item.r.val))

\* resolved.push(item), or the error of the `?`, then the next iteration.
pull_lock_push(item, f, o, entries, env, i, resolved) ==
    IF ~item.r.ok THEN item
    ELSE pull_lock_from(item.w, f, o, entries, env, i + 1,
                        Append(resolved, item.r.val))

pull_lock_from(w, f, o, entries, env, i, resolved) ==
    IF i > Len(entries)
    THEN Outcome(w, Ok(resolved))
    ELSE pull_lock_push(pull_lock_entry(w, f, o, entries[i], env),
                        f, o, entries, env, i, resolved)

\* contents is fs::read_to_string(lock_path): None when the file cannot be read.
pull_lock(w, f, o, contents, env) ==
    IF IsNone(contents)
    THEN Outcome(w, Err([kind |-> "Io"]))
    ELSE LET entries == parse_lockfile(Unwrap(contents))
         IN  IF ~entries.ok THEN Outcome(w, entries)
             ELSE pull_lock_from(w, f, o, entries.val, env, 1, <<>>)

(***************************************************************************)
(* Inputs of the model.                                                    *)
(***************************************************************************)
\* What the registry client returns from pull: an error, an image without
\* layers, or an image with one layer.  The image may report a digest
\* (the registry's digest of the manifest) and so may the layer; neither
\* needs to be the SHA-256 of the layer's bytes.
Image(idg, data, ldg) == PulledImage(idg, <<PulledLayer("application/wasm", data, ldg)>>)
Images ==
    {Image(None, B1, None),          \* nothing reported
     Image(Some(D1), B1, Some(D1)),  \* both report the bytes' digest
     Image(None, B2, Some(D2)),      \* the layer reports the bytes' digest
     Image(Some(D1), B2, Some(D2)),  \* the image reports another digest
     Image(None, B2, Some(D1))}      \* the layer reports another digest
PullResponses ==
    {Err("not found"), Ok(PulledImage(None, <<>>))} \cup {Ok(img) : img \in Images}

RECURSIVE SeqsUpTo(_, _)
SeqsUpTo(S, n) ==
    IF n = 0 THEN {<<>>}
    ELSE LET shorter == SeqsUpTo(S, n - 1)
         IN  shorter \cup {Append(q, x) : q \in {t \in shorter : Len(t) = n - 1}, x \in S}

\* The reference lists of a call: up to MaxRefs references.  resolve_refs
\* returns at the first error and NotARef always fails, so nothing stands
\* after it.
RefLists ==
    (SeqsUpTo(OciRefs \ {NotARef}, MaxRefs) \ {<<>>})
    \cup {Append(q, NotARef) : q \in SeqsUpTo(OciRefs \ {NotARef}, MaxRefs - 1)}

DigestLists == SeqsUpTo(DigestArgs, MaxRefs)

EmptyCache == [n \in {} |-> DirEntry(None, None)]

\* The cache directory a client is constructed on: empty, or holding the
\* entry an earlier resolution of Pinned1 wrote.
InitCaches ==
    {EmptyCache,
     OciCacheWrite(EmptyCache, D1, "application/wasm", B1, Pinned1, Some(D1))}

OptionSets == [allow_tags : BOOLEAN, offline : BOOLEAN]

\* writers holds the processes that are inside a cache write, step by step;
\* the operations of one client, taken whole, have none.
NoWriters == <<>>

(***************************************************************************)
(* The OCI resolver over a mock registry client (tests/oci_components.rs), *)
(* on a cache directory that DistClient::remove_cached can empty.          *)
(***************************************************************************)
Here == World(cache, pulls, gets)

Commit(out) ==
    /\ out.w.pulls <= MaxPulls
    /\ out.w.gets <= MaxGets
    /\ cache' = out.w.cache
    /\ pulls' = out.w.pulls
    /\ gets' = out.w.gets
    /\ UNCHANGED <<files, opts, writers>>

InitOci ==
    /\ cache \in InitCaches
    /\ files = [p \in {} |-> B1]
    /\ pulls = 0
    /\ gets = 0
    /\ opts \in OptionSets
    /\ last = [op |-> "new"]
    /\ writers = NoWriters

ResolveRefs(refs, resp) ==
    \E out \in {resolve_refs(Here, OciOptions(opts), refs, [i \in 1..Len(refs) |-> resp])} :
        /\ Commit(out)
        /\ last' = [op |-> "resolve_refs", refs |-> refs,
                    r |-> out.r, results |-> out.results]

RemoveCached(digests) ==
    \E out \in {remove_cached(Here, digests)} :
        /\ Commit(out)
        /\ last' = [op |-> "remove_cached", digests |-> digests, r |-> out.r]

NextOci ==
    \/ \E refs \in RefLists, resp \in PullResponses : ResolveRefs(refs, resp)
    \/ \E digests \in DigestLists : RemoveCached(digests)

SpecOci == InitOci /\ [][NextOci]_vars

(***************************************************************************)
(* DistClient (tests/dist_client.rs): every public operation, on a cache   *)
(* directory that starts empty, beside one source file.                    *)
(***************************************************************************)
\* The network during one call: down (every GET and every pull fails); up,
\* with a registry that reports the digest of the bytes it serves; up, with a
\* registry whose image reports a digest that is not that of the layer bytes.
Envs ==
    {[get |-> Err("connect"), pull |-> Err("not found")],
     [get |-> Ok(B2), pull |-> Ok(Image(Some(D1), B1, Some(D1)))],
     [get |-> Ok(B2), pull |-> Ok(Image(Some(D1), B2, Some(D2)))]}

\* Lock entries: a bare reference, objects with a reference and a digest, an
\* object with neither.
PinnedEntry ==
    JObject([k \in {"ref", "digest", "name"} |->
                JString(CASE k = "ref" -> HttpUrl [] k = "digest" -> D1 [] k = "name" -> "c")])
\* The source file, pinned to the digest of its bytes written without the
\* sha256: prefix.
BareEntry ==
    JObject([k \in {"reference", "digest"} |->
                JString(IF k = "reference" THEN SrcFile ELSE Sha256Hex(B1))])

LockEntries ==
    {JString(SrcFile), PinnedEntry, BareEntry,
     JObject([k \in {"name"} |-> JString("c")])}

MaxEntries == 1

FlatDocs == {JArray(a) : a \in SeqsUpTo(LockEntries, MaxEntries)}

\* The lockfile: unreadable, not JSON, a flat list, or the wrapper object.
LockContents ==
    {None, Some(Malformed)}
    \cup {Some(d) : d \in FlatDocs}
    \cup {Some(JObject([k \in {"schema_version", "components"} |->
                           IF k = "schema_version" THEN JNumber(1)
                           ELSE JArray(<<PinnedEntry>>)]))}

Init ==
    /\ cache = EmptyCache
    /\ files = [p \in {SrcFile} |-> B1]
    /\ pulls = 0
    /\ gets = 0
    /\ opts \in OptionSets
    /\ last = [op |-> "new"]
    /\ writers = NoWriters

ResolveRef(reference, env) ==
    \E out \in {resolve_ref(Here, files, opts, reference, env)} :
        /\ Commit(out)
        /\ last' = [op |-> "resolve_ref", reference |-> reference, r |-> out.r]

EnsureCached(reference, env) ==
    \E out \in {ensure_cached(Here, files, opts, reference, env)} :
        /\ Commit(out)
        /\ last' = [op |-> "ensure_cached", reference |-> reference, r |-> out.r]

FetchDigest(digest) ==
    \E out \in {fetch_digest(Here, digest)} :
        /\ Commit(out)
        /\ last' = [op |-> "fetch_digest", digest |-> digest, r |-> out.r]

PullLock(contents, env) ==
    \E out \in {pull_lock(Here, files, opts, contents, env)} :
        /\ Commit(out)
        /\ last' = [op |-> "pull_lock", contents |-> contents, r |-> out.r]

ListCache ==
    /\ last' = [op |-> "list_cache", r |-> Ok(list_cache(Here))]
    /\ UNCHANGED <<cache, files, pulls, gets, opts, writers>>

\* The directories without component.wasm.
Dangling(c) == {n \in DOMAIN c : IsNone(c[n].wasm)}

Gc(stuck) ==
    \E out \in {gc(Here, stuck)} :
        /\ Commit(out)
        /\ last' = [op |-> "gc", r |-> out.r]

Next ==
    \/ \E reference \in DistRefs, env \in Envs : ResolveRef(reference, env)
    \/ \E reference \in DistRefs, env \in Envs : EnsureCached(reference, env)
    \/ \E digest \in DigestArgs : FetchDigest(digest)
    \/ \E contents \in LockContents, env \in Envs : PullLock(contents, env)
    \/ ListCache
    \/ \E digests \in DigestLists : RemoveCached(digests)
    \/ \E stuck \in SUBSET Dangling(cache) : Gc(stuck)

Spec == Init /\ [][Next]_vars

\* The network, down: every GET and every pull fails.
NoNetwork == [get |-> Err("connect"), pull |-> Err("not found")]

(***************************************************************************)
(* DistClient::pull_lock on lockfiles of several entries                   *)
(* (tests/dist_client.rs, pulls_lockfile_entries).                         *)
(***************************************************************************)
MaxLockEntries == 2
MaxLockGets == 2

\* The network during one call: down, or up and serving B2.
LockEnvs == {NoNetwork, [get |-> Ok(B2), pull |-> Err("not found")]}

\* A local file pinned to a digest that is not that of its bytes.
PinnedFile ==
    JObject([k \in {"reference", "digest"} |->
                JString(IF k = "reference" THEN SrcFile ELSE D2)])

\* Lock entries: a bare file path, a bare URL, an object with a reference
\* and a digest, an object with neither.
LockfileEntries ==
    {JString(SrcFile), JString(HttpUrl), PinnedFile,
     JObject([k \in {"name"} |-> JString("c")])}

Lockfiles == {JArray(a) : a \in SeqsUpTo(LockfileEntries, MaxLockEntries)}

PullLockfile(doc, env) ==
    \E out \in {pull_lock(Here, files, opts, Some(doc), env)} :
        /\ out.w.gets <= MaxLockGets
        /\ cache' = out.w.cache
        /\ pulls' = out.w.pulls
        /\ gets' = out.w.gets
        /\ last' = [op |-> "pull_lock", contents |-> Some(doc), env |-> env,
                    r |-> out.r]
        /\ UNCHANGED <<files, opts, writers>>

NextLock ==
    \/ \E doc \in Lockfiles, env \in LockEnvs : PullLockfile(doc, env)
    \/ \E digests \in DigestLists : RemoveCached(digests)

\* Lock entries hold no OCI reference, and the client is one that allows no
\* tags.
InitLock ==
    /\ cache = EmptyCache
    /\ files = [p \in {SrcFile} |-> B1]
    /\ pulls = 0
    /\ gets = 0
    /\ opts \in {o \in OptionSets : ~o.allow_tags}
    /\ last = [op |-> "new"]
    /\ writers = NoWriters

SpecLock == InitLock /\ [][NextLock]_vars

(***************************************************************************)
(* select_layer on its own, over layer lists and preference lists.         *)
(***************************************************************************)
MaxLayers == 2

LayerMediaTypes == {"application/wasm", "application/octet-stream", "text/plain"}

LayerLists ==
    SeqsUpTo({PulledLayer(media_type, data, None) :
                 media_type \in LayerMediaTypes, data \in Blobs},
             MaxLayers)

\* Preferences: the default of ComponentResolveOptions, a list of the
\* caller's, a list that names no type of a layer, and none.
PreferenceLists ==
    {DEFAULT_LAYER_MEDIA_TYPES,
     <<"text/plain", "application/wasm">>,
     <<"application/x-none">>,
     <<>>}

SelectLayer(layers, preferred_types) ==
    /\ last' = [op |-> "select_layer", layers |-> layers,
                preferred_types |-> preferred_types,
                r |-> select_layer(layers, preferred_types, Pinned1)]
    /\ UNCHANGED <<cache, files, pulls, gets, opts, writers>>

NextSelect ==
    \E layers \in LayerLists, preferred_types \in PreferenceLists :
        SelectLayer(layers, preferred_types)

\* select_layer reads neither the cache nor the options.
InitSelect ==
    /\ cache = EmptyCache
    /\ files = [p \in {} |-> B1]
    /\ pulls = 0
    /\ gets = 0
    /\ opts = [allow_tags |-> FALSE, offline |-> FALSE]
    /\ last = [op |-> "new"]
    /\ writers = NoWriters

SpecSelect == InitSelect /\ [][NextSelect]_vars

(***************************************************************************)
(* resolve_ref of a file and of a URL, again and again, beside a source    *)
(* file that is rewritten and a server whose answer changes.               *)
(***************************************************************************)
MaxFetches == 2

\* The server: down, or serving one of the artifacts.
RepeatEnvs ==
    {NoNetwork} \cup {[get |-> Ok(bytes), pull |-> Err("not found")] : bytes \in Blobs}

\* The call before was a successful resolve_ref of the same reference, with
\* the same files and the same answer of the server.
Again(reference, env) ==
    /\ last.op = "resolve_ref"
    /\ last.r.ok
    /\ last.reference = reference
    /\ last.files = files
    /\ last.env = env

\* resolve_ref(reference); last keeps what the source held during the call.
ResolveAgain(reference, env) ==
    \E out \in {resolve_ref(Here, files, opts, reference, env)} :
        /\ out.w.gets <= MaxFetches
        /\ cache' = out.w.cache
        /\ pulls' = out.w.pulls
        /\ gets' = out.w.gets
        /\ last' = [op |-> "resolve_ref", reference |-> reference,
                    files |-> files, env |-> env, r |-> out.r,
                    again |-> Again(reference, env)]
        /\ UNCHANGED <<files, opts, writers>>

\* The source file is rewritten between two calls.
RewriteFile(bytes) ==
    /\ files[SrcFile] # bytes
    /\ files' = [files EXCEPT ![SrcFile] = bytes]
    /\ last' = [op |-> "rewrite"]
    /\ UNCHANGED <<cache, pulls, gets, opts, writers>>

NextRepeat ==
    \/ \E reference \in {SrcFile, HttpUrl}, env \in RepeatEnvs :
          ResolveAgain(reference, env)
    \/ \E bytes \in Blobs : RewriteFile(bytes)
    \/ \E digests \in DigestLists : RemoveCached(digests)

SpecRepeat == InitLock /\ [][NextRepeat]_vars

(***************************************************************************)
(* Two writers inside ComponentCache::write_component or OciCache::write   *)
(* for one digest and the same bytes, one file-system call at a time.      *)
(* fs::write is File::create, which truncates, followed by write_all,      *)
(* which writes the bytes in one or more write calls at the offset of the  *)
(* writer's own file handle.                                               *)
(***************************************************************************)
MaxChunks == 2

\* The bytes of one write call of write_all.
ChunkLen(data) == (Len(data) + MaxChunks - 1) \div MaxChunks

\* The byte a file reads as where nothing was written before the offset.
RECURSIVE Holes(_)
Holes(n) == IF n <= 0 THEN "" ELSE "." \o Holes(n - 1)

\* write with O_APPEND: the chunk goes to the end of the file.
WriteAtEnd(content, off, chunk) == content \o chunk

\* write(fd, chunk) with the file offset at off.
WriteAt(content, off, chunk) ==
    LET padded == content \o Holes(off - Len(content))
    IN  SubSeq(padded, 1, off) \o chunk
           \o SubSeq(padded, off + Len(chunk) + 1, Len(padded))

Writer(kind, data) ==
    [kind |-> kind, data |-> data, pc |-> "create_dir_all", off |-> 0, r |-> None]

\* The directory the writers write to.
RaceDir == component_dirname(digest_for_bytes(writers[1].data))

InitRace ==
    /\ cache \in InitCaches
    /\ files = [p \in {} |-> B1]
    /\ pulls = 0
    /\ gets = 0
    /\ opts = [allow_tags |-> FALSE, offline |-> FALSE]
    /\ last = [op |-> "write", raced |-> FALSE]
    /\ \E data \in Blobs, kind1 \in {"dist", "oci"}, kind2 \in {"dist", "oci"} :
          writers = <<Writer(kind1, data), Writer(kind2, data)>>

\* Another writer is between its first write call and its last.
MidWrite(w) ==
    \E v \in DOMAIN writers : v # w /\ writers[v].pc = "write" /\ writers[v].off > 0

\* fs::create_dir_all(&dir).
CreateDir(w) ==
    /\ writers[w].pc = "create_dir_all"
    /\ cache' = CreateDirAll(cache, RaceDir)
    /\ writers' = [writers EXCEPT ![w].pc = "create"]
    /\ UNCHANGED <<files, pulls, gets, opts, last>>

\* File::create(&path) of fs::write.
CreateFile(w) ==
    /\ writers[w].pc = "create"
    /\ IF DirExists(cache, RaceDir)
       THEN /\ cache' = WriteWasm(cache, RaceDir, "")
            /\ writers' = [writers EXCEPT ![w].pc = "write", ![w].off = 0]
            /\ last' = [last EXCEPT !.raced = @ \/ MidWrite(w)]
       ELSE \* The directory is gone: File::create fails and the `?` returns.
            /\ writers' = [writers EXCEPT ![w].pc = "done",
                                          ![w].r = Some(Err([kind |-> "Io"]))]
            /\ UNCHANGED <<cache, last>>
    /\ UNCHANGED <<files, pulls, gets, opts>>

\* The writer once write_all has written up to off.
Advanced(writer, off) ==
    IF off < Len(writer.data) THEN [writer EXCEPT !.off = off]
    ELSE IF writer.kind = "oci" THEN [writer EXCEPT !.off = off, !.pc = "metadata"]
    ELSE [writer EXCEPT !.off = off, !.pc = "done",
                        !.r = Some(Ok(component_path(digest_for_bytes(writer.data))))]

\* One write call of write_all.
WriteChunk(w) ==
    /\ writers[w].pc = "write"
    /\ \E chunk \in {SubSeq(writers[w].data, writers[w].off + 1,
                            IF writers[w].off + ChunkLen(writers[w].data)
                                  < Len(writers[w].data)
                            THEN writers[w].off + ChunkLen(writers[w].data)
                            ELSE Len(writers[w].data))} :
          /\ cache' = IF WasmExists(cache, RaceDir)
                      THEN WriteWasm(cache, RaceDir,
                                     WriteAt(Unwrap(cache[RaceDir].wasm),
                                             writers[w].off, chunk))
                      ELSE cache  \* the file was unlinked: the write goes to no name
          /\ writers' = [writers EXCEPT
                            ![w] = Advanced(@, writers[w].off + Len(chunk))]
    /\ UNCHANGED <<files, pulls, gets, opts, last>>

\* fs::write(metadata_path, buf) of OciCache::write.
WriteMetadata(w) ==
    /\ writers[w].pc = "metadata"
    /\ IF DirExists(cache, RaceDir)
       THEN /\ cache' = WriteMeta(cache, RaceDir,
                                  CacheMetadata(Pinned1, digest_for_bytes(writers[w].data),
                                                "application/wasm", writers[w].data, None))
            /\ writers' = [writers EXCEPT
                              ![w].pc = "done",
                              ![w].r = Some(Ok(artifact_path(
                                                  digest_for_bytes(writers[w].data))))]
       ELSE /\ writers' = [writers EXCEPT ![w].pc = "done",
                                          ![w].r = Some(Err([kind |-> "Io"]))]
            /\ UNCHANGED cache
    /\ UNCHANGED <<files, pulls, gets, opts, last>>

NextRace ==
    \E w \in 1..2 :
        \/ CreateDir(w)
        \/ CreateFile(w)
        \/ WriteChunk(w)
        \/ WriteMetadata(w)

SpecRace == InitRace /\ [][NextRace]_vars

(***************************************************************************)
(* DistClient::gc beside one writer, one file-system call at a time.  gc   *)
(* reads the directory once (list_digests), then for each digest tests     *)
(* component_path(digest).exists() and, when it does not, calls            *)
(* fs::remove_dir_all on the directory.                                    *)
(***************************************************************************)
Collector ==
    [kind |-> "gc", pc |-> "list_digests", todo |-> <<>>, removed |-> {}, r |-> None]

\* The orders in which read_dir can give the directories.
Orders(S) == {q \in SeqsUpTo(S, Cardinality(S)) : {q[i] : i \in DOMAIN q} = S}

InitGcRace ==
    /\ cache \in InitCaches
    /\ files = [p \in {} |-> B1]
    /\ pulls = 0
    /\ gets = 0
    /\ opts = [allow_tags |-> FALSE, offline |-> FALSE]
    /\ last = [op |-> "gc", deleted_written |-> FALSE]
    /\ \E data \in Blobs, kind \in {"dist", "oci"} :
          writers = <<Writer(kind, data), Collector>>

\* self.cache.list_digests().
GcList(g) ==
    /\ writers[g].pc = "list_digests"
    /\ \E todo \in Orders(list_digests(cache)) :
          writers' = [writers EXCEPT ![g].pc = "exists", ![g].todo = todo]
    /\ UNCHANGED <<cache, files, pulls, gets, opts, last>>

\* if !path.exists(), for the next digest of the loop; Ok(removed) after
\* the last.
GcExists(g) ==
    /\ writers[g].pc = "exists"
    /\ writers' =
          IF writers[g].todo = <<>>
          THEN [writers EXCEPT ![g].pc = "done", ![g].r = Some(Ok(writers[g].removed))]
          ELSE IF WasmExists(cache, component_dirname(Head(writers[g].todo)))
          THEN [writers EXCEPT ![g].todo = Tail(@)]
          ELSE [writers EXCEPT ![g].pc = "remove_dir_all"]
    /\ UNCHANGED <<cache, files, pulls, gets, opts, last>>

\* fs::remove_dir_all(&dir).ok(); removed.push(digest).  last keeps whether
\* the directory held a component.wasm when it was removed.
GcRemove(g) ==
    /\ writers[g].pc = "remove_dir_all"
    /\ cache' = RemoveDirAll(cache, component_dirname(Head(writers[g].todo)))
    /\ writers' = [writers EXCEPT ![g].pc = "exists",
                                  ![g].removed = @ \cup {Head(writers[g].todo)},
                                  ![g].todo = Tail(@)]
    /\ last' = [last EXCEPT !.deleted_written =
                    @ \/ WasmExists(cache, component_dirname(Head(writers[g].todo)))]
    /\ UNCHANGED <<files, pulls, gets, opts>>

NextGcRace ==
    \/ CreateDir(1)
    \/ CreateFile(1)
    \/ WriteChunk(1)
    \/ WriteMetadata(1)
    \/ GcList(2)
    \/ GcExists(2)
    \/ GcRemove(2)

SpecGcRace == InitGcRace /\ [][NextGcRace]_vars

(***************************************************************************)
(* classify_reference on its own, over reference strings and over the      *)
(* paths that exist beside the cache.                                      *)
(***************************************************************************)
\* A file URL with a host, which Url::to_file_path refuses; a string with a
\* scheme that classification does not know.
RemoteFileUrl == "file://h/c.wasm"
OtherScheme == "x:y"

\* Strings that may name an existing file: a plain path, a string that is
\* also a URL of a known scheme, and one of an unknown scheme.
PathCandidates == {SrcFile, HttpUrl, OtherScheme}

\* sha256: followed by 64 characters that are not hex digits but a path
\* that climbs out of the cache directory.
ClimbingDigest ==
    "sha256:../../../../../../../../../../../../../../../../../../../../../x"

ClassifyInputs ==
    {D1, HttpUrl, "https://h/c.wasm", "file://" \o SrcFile, RemoteFileUrl,
     "oci://" \o Pinned1, BadOciRef, RepoRef, StoreRef, SrcFile, OtherScheme,
     Pinned1, Tagged, NotARef, ClimbingDigest}

InitClassify ==
    /\ cache = EmptyCache
    /\ \E present \in SUBSET PathCandidates : files = [p \in present |-> B1]
    /\ pulls = 0
    /\ gets = 0
    /\ opts = [allow_tags |-> FALSE, offline |-> FALSE]
    /\ last = [op |-> "new"]
    /\ writers = NoWriters

Classify(input) ==
    /\ last' = [op |-> "classify_reference", input |-> input,
                r |-> classify_reference(cache, files, input)]
    /\ UNCHANGED <<cache, files, pulls, gets, opts, writers>>

NextClassify == \E input \in ClassifyInputs : Classify(input)

SpecClassify == InitClassify /\ [][NextClassify]_vars

(***************************************************************************)
(* default_cache_root, src/oci_components.rs, over the environment: the    *)
(* two variables, each unset or set to a directory, and the user cache     *)
(* directory of the operating system, known or not.                        *)
(***************************************************************************)
default_cache_root(env) ==
    IF IsSome(env.GREENTIC_DIST_CACHE_DIR)
    THEN Unwrap(env.GREENTIC_DIST_CACHE_DIR)
    ELSE IF IsSome(env.cache_dir)
    THEN PathJoin(PathJoin(Unwrap(env.cache_dir), "greentic"), "components")
    ELSE IF IsSome(env.GREENTIC_HOME)
    THEN PathJoin(PathJoin(Unwrap(env.GREENTIC_HOME), "cache"), "components")
    ELSE PathJoin(PathJoin(".greentic", "cache"), "components")

EnvDirs == {"/a", "/b", "/home/u/.cache", "rel"}

Environments ==
    [GREENTIC_DIST_CACHE_DIR : {None} \cup {Some(d) : d \in EnvDirs},
     GREENTIC_HOME : {None} \cup {Some(d) : d \in EnvDirs},
     cache_dir : {None} \cup {Some(d) : d \in EnvDirs}]

DefaultCacheRoot(env) ==
    /\ last' = [op |-> "default_cache_root", env |-> env, r |-> default_cache_root(env)]
    /\ UNCHANGED <<cache, files, pulls, gets, opts, writers>>

NextRoot == \E env \in Environments : DefaultCacheRoot(env)

SpecRoot == InitSelect /\ [][NextRoot]_vars

(***************************************************************************)
(* The cache directory across interrupted writers: a process that is       *)
(* killed inside ComponentCache::write_component or OciCache::write leaves *)
(* the directory as the file-system calls made so far have it, and the     *)
(* next client finds it so.                                                *)
(***************************************************************************)
\* write_component cut short: after create_dir_all, or inside fs::write,
\* which has created or truncated component.wasm and written part of data.
write_component_cut(c, digest, data) ==
    {CreateDirAll(c, component_dirname(digest))}
    \cup {WriteWasm(c, component_dirname(digest), part) : part \in Prefixes(data)}

\* OciCache::write cut short: as above, or after component.wasm is written
\* and before metadata.json is, or inside the write of metadata.json.
oci_write_cut(c, digest, data) ==
    {CreateDirAll(c, artifact_dirname(digest))}
    \cup {WriteWasm(c, artifact_dirname(digest), part) : part \in Prefixes(data)}
    \cup {WriteWasm(c, artifact_dirname(digest), data)}
    \cup {WriteMeta(WriteWasm(c, artifact_dirname(digest), data),
                    artifact_dirname(digest), TornMetadata)}

\* ingest_file(path), killed inside write_component.
KilledIngest(path) ==
    /\ IsSome(ReadFile(cache, files, path))
    /\ \E c \in write_component_cut(cache,
                                     digest_for_bytes(Unwrap(ReadFile(cache, files, path))),
                                     Unwrap(ReadFile(cache, files, path))) :
          cache' = c
    /\ last' = [op |-> "killed", during |-> "ingest_file"]
    /\ UNCHANGED <<files, pulls, gets, opts, writers>>

\* resolve_refs([reference]), killed inside OciCache::write after its pull.
KilledResolve(reference, resp) ==
    \E out \in {resolve_refs(Here, OciOptions(opts), <<reference>>, <<resp>>)} :
        /\ out.r.ok
        /\ out.r.val[1].fetched_from_network
        /\ out.w.pulls <= MaxPulls
        /\ \E c \in oci_write_cut(
                        cache, out.r.val[1].resolved_digest,
                        Unwrap(out.w.cache[artifact_dirname(
                                               out.r.val[1].resolved_digest)].wasm)) :
              cache' = c
        /\ pulls' = out.w.pulls
        /\ last' = [op |-> "killed", during |-> "resolve_refs"]
        /\ UNCHANGED <<files, gets, opts, writers>>

\* fs::remove_dir_all cut short: the files of the directory are unlinked one
\* by one, in the order read_dir gives them, and the directory last.
remove_dir_all_cut(c, name) ==
    {[c EXCEPT ![name] = DirEntry(None, @.meta)],
     [c EXCEPT ![name] = DirEntry(@.wasm, None)],
     [c EXCEPT ![name] = DirEntry(None, None)]}

\* remove_cached([digest]), killed inside fs::remove_dir_all.
KilledRemove(digest) ==
    /\ DirExists(cache, component_dirname(digest))
    /\ \E c \in remove_dir_all_cut(cache, component_dirname(digest)) : cache' = c
    /\ last' = [op |-> "killed", during |-> "remove_cached"]
    /\ UNCHANGED <<files, pulls, gets, opts, writers>>

CrashResponses == {Err("not found"), Ok(Image(None, B1, None))}

\* The cache directory as an earlier process left it, beside the source file.
InitCrash ==
    /\ cache \in InitCaches
    /\ files = [p \in {SrcFile} |-> B1]
    /\ pulls = 0
    /\ gets = 0
    /\ opts \in OptionSets
    /\ last = [op |-> "new"]
    /\ writers = NoWriters

NextCrash ==
    \/ KilledIngest(SrcFile)
    \/ \E resp \in CrashResponses : KilledResolve(Pinned1, resp)
    \/ KilledResolve(Tagged, Ok(Image(None, B2, None)))
    \/ KilledRemove(D1)
    \/ \E reference \in {D1, SrcFile} : ResolveRef(reference, NoNetwork)
    \/ \E reference \in {D1, SrcFile} : EnsureCached(reference, NoNetwork)
    \/ \E digest \in DigestArgs : FetchDigest(digest)
    \/ \E resp \in CrashResponses : ResolveRefs(<<Pinned1>>, resp)
    \/ \E stuck \in SUBSET Dangling(cache) : Gc(stuck)

SpecCrash == InitCrash /\ [][NextCrash]_vars

(***************************************************************************)
(* One resolution by the OCI resolver, on a disk that takes the write of   *)
(* the entry or refuses it.                                                *)
(***************************************************************************)
\* What the registry answers: as PullResponses, an image that reports a
\* digest and carries no layer, and images that report the digest of their
\* bytes as bare hex, on the image or on the layer.
OrderResponses ==
    PullResponses
    \cup {Ok(PulledImage(Some(D2), <<>>)),
          Ok(Image(Some(Sha256Hex(B1)), B1, None)),
          Ok(Image(None, B1, Some(Sha256Hex(B1))))}

Disks == {"writable", "full"}

\* resolve_refs([reference]); last keeps the directories the cache held
\* before the call.  On a full disk OciCache::write fails in
\* create_dir_all or in one of its two fs::write calls, and the `?` returns
\* OciComponentError::Io with what the write left in the directory.
ResolveSingle(reference, resp, disk) ==
    \E out \in {resolve_refs(Here, OciOptions(opts), <<reference>>, <<resp>>)} :
        IF disk = "full" /\ out.r.ok /\ out.r.val[1].fetched_from_network
        THEN /\ out.w.pulls <= MaxPulls
             /\ \E c \in {cache} \cup oci_write_cut(
                             cache, out.r.val[1].resolved_digest,
                             Unwrap(out.w.cache[artifact_dirname(
                                                    out.r.val[1].resolved_digest)].wasm)) :
                   cache' = c
             /\ pulls' = out.w.pulls
             /\ last' = [op |-> "resolve_single", reference |-> reference,
                         resp |-> resp, disk |-> disk, before |-> DOMAIN cache,
                         r |-> Err([kind |-> "Io", reference |-> reference])]
             /\ UNCHANGED <<files, gets, opts, writers>>
        ELSE /\ Commit(out)
             /\ last' = [op |-> "resolve_single", reference |-> reference,
                         resp |-> resp, disk |-> disk, before |-> DOMAIN cache,
                         r |-> out.r]

NextOrder ==
    \E reference \in OciRefs, resp \in OrderResponses, disk \in Disks :
        ResolveSingle(reference, resp, disk)

SpecOrder == InitOci /\ [][NextOrder]_vars

(***************************************************************************)
(* DistClient::pull_lock on a lockfile of one entry, over the shapes an    *)
(* entry can have.                                                         *)
(***************************************************************************)
EntryKeys == {"reference", "ref", "digest"}

\* What a key of an entry object holds when it is there.
FieldValues(key) ==
    CASE key = "reference" -> {JNull, JString(SrcFile)}
      [] key = "ref" -> {JString(HttpUrl)}
      [] key = "digest" -> {JString(D1), JString(D2)}

EntryObjects ==
    UNION {{JObject(m) : m \in {g \in [K -> UNION {FieldValues(k) : k \in EntryKeys}] :
                                   \A k \in K : g[k] \in FieldValues(k)}} :
           K \in SUBSET EntryKeys}

EntryShapes == {JString(SrcFile), JString(HttpUrl)} \cup EntryObjects

MaxEntryGets == 3

\* Servers whose responses change during the call that starts after n GETs:
\* other bytes from the second GET on, a second GET that fails, and every
\* GET after the first failing.
Changing(n) ==
    {[answers |-> a, from |-> n, pull |-> Err("not found")] :
        a \in {<<Ok(B2), Ok(B1), Ok(B1)>>,
                <<Ok(B2), Err("reset"), Ok(B1)>>,
                <<Ok(B2), Err("reset"), Err("reset")>>}}

\* pull_lock on the lockfile [entry]; last keeps what to_resolved made of
\* the entry.
PullLockEntry(entry, env) ==
    \E out \in {pull_lock(Here, files, opts, Some(JArray(<<entry>>)), env)} :
        /\ out.w.gets <= MaxEntryGets
        /\ cache' = out.w.cache
        /\ pulls' = out.w.pulls
        /\ gets' = out.w.gets
        /\ last' = [op |-> "pull_lock_entry", entry |-> entry, env |-> env,
                    resolved |-> to_resolved(entry), r |-> out.r]
        /\ UNCHANGED <<files, opts, writers>>

\* The source file is deleted between two calls.
UnlinkFile ==
    /\ SrcFile \in DOMAIN files
    /\ files' = [p \in DOMAIN files \ {SrcFile} |-> files[p]]
    /\ last' = [op |-> "unlink"]
    /\ UNCHANGED <<cache, pulls, gets, opts, writers>>

NextEntry ==
    \/ \E entry \in EntryShapes, env \in LockEnvs \cup Changing(gets) :
          PullLockEntry(entry, env)
    \/ UnlinkFile

SpecEntry == InitLock /\ [][NextEntry]_vars

(***************************************************************************)
(* Properties.                                                             *)
(***************************************************************************)
Failed(kind) == ~last.r.ok /\ last.r.err.kind = kind

\* C1: a DistClient constructed with offline = true never issues an HTTP GET
\* and never pulls from the registry, whatever operations are called on it.
C1_OfflineNoNetwork == opts.offline => gets = 0 /\ pulls = 0

\* C1 witness: an offline client was asked for an HTTP reference and refused.
C1_Witness ==
    /\ opts.offline
    /\ last.op = "resolve_ref"
    /\ last.reference = HttpUrl
    /\ Failed("Offline")

\* C2: every cache entry holds a component.wasm whose SHA-256 is the digest
\* that names its directory.
C2_ContentAddressed ==
    \A n \in DOMAIN cache :
        IsSome(cache[n].wasm) => Sha256Hex(Unwrap(cache[n].wasm)) = n

(***************************************************************************)
(* Vocabulary for the resolver's properties.  The primed operators speak   *)
(* of the step that a call of resolve_refs makes: last' holds its          *)
(* arguments, its result and the vector results as the call left it.       *)
(***************************************************************************)
IsPinned(reference) ==
    ParseReference(reference).ok /\ IsSome(ParseReference(reference).digest)

IsTagOnly(reference) ==
    ParseReference(reference).ok /\ IsNone(ParseReference(reference).digest)

PinnedDigest(reference) == oci_normalize_digest(Unwrap(ParseReference(reference).digest))

\* What a reference pins: whether it carries a digest, whether it parses
\* without one, the normalized digest and the cache directory it names.
Pin(reference) ==
    LET parsed == ParseReference(reference)
        pinned == parsed.ok /\ IsSome(parsed.digest)
        digest == IF pinned THEN oci_normalize_digest(Unwrap(parsed.digest)) ELSE ""
    IN  [pinned |-> pinned,
         tag_only |-> parsed.ok /\ IsNone(parsed.digest),
         digest |-> digest,
         dir |-> artifact_dirname(digest)]

ResolveRefsStep == last'.op = "resolve_refs"

FailedWith(kind) == ~last'.r.ok /\ last'.r.err.kind = kind

\* The references the call got to: those resolved, and the one that failed.
ResolvedAt(i) == i \in 1..Len(last'.results)
FailedAt(i) == ~last'.r.ok /\ i = Len(last'.results) + 1

FetchedResults == {i \in 1..Len(last'.results) : last'.results[i].fetched_from_network}

\* The step changed the cache directory only by the entries of the
\* references it resolved from the network.
OnlyFetchedWrites ==
    /\ DOMAIN cache \subseteq DOMAIN cache'
    /\ \A n \in DOMAIN cache' :
          \/ n \in DOMAIN cache /\ cache'[n] = cache[n]
          \/ \E i \in FetchedResults :
                 n = artifact_dirname(last'.results[i].resolved_digest)

\* C3: for a digest-pinned reference that is not cached, when the registry
\* returns layer bytes whose SHA-256 is not the pinned digest, resolve_refs
\* fails with DigestMismatch, whatever digests the registry reports.
C3_MismatchDetected ==
    [][\A reference \in OciRefs, resp \in PullResponses :
          (/\ IsPinned(reference)
           /\ ~WasmExists(cache, artifact_dirname(PinnedDigest(reference)))
           /\ ~opts.offline
           /\ resp.ok
           /\ Len(resp.val.layers) > 0
           /\ compute_digest(resp.val.layers[1].data) # PinnedDigest(reference)
           /\ ResolveRefs(<<reference>>, resp))
          => FailedWith("DigestMismatch")]_vars

\* C4 as stated: when resolve_refs fails with DigestMismatch the cache is
\* exactly what it was before the call.
C4_CacheUntouched ==
    [][(ResolveRefsStep /\ FailedWith("DigestMismatch")) => cache' = cache]_vars

\* C4 amended: when resolve_refs fails with DigestMismatch, the reference
\* that failed wrote nothing; the cache differs from what it was before the
\* call only by the entries of the references resolved from the network
\* earlier in the same call, so it is unchanged when the first reference is
\* the one that fails.
C4_FailedReferenceWritesNothing ==
    [][(ResolveRefsStep /\ FailedWith("DigestMismatch")) =>
          /\ OnlyFetchedWrites
          /\ pulls' = pulls + Cardinality(FetchedResults) + 1
          /\ Len(last'.results) = 0 => cache' = cache]_vars

\* C4 witness: a call failed with DigestMismatch at its second reference
\* after it had fetched and cached the first.
C4_Witness ==
    /\ last.op = "resolve_refs"
    /\ Failed("DigestMismatch")
    /\ Len(last.results) = 1
    /\ last.results[1].fetched_from_network
    /\ WasmExists(cache, artifact_dirname(last.results[1].resolved_digest))
    /\ ~WasmExists(cache, artifact_dirname(last.r.err.expected))

\* C5: in the resolver with offline = true, a digest-pinned reference the
\* call gets to resolves from the cache (fetched_from_network = false, the
\* pinned digest) when its digest is cached, and fails with OfflineMissing
\* carrying the normalized digest when it is not; the call pulls nothing.
C5_PinnedOffline ==
    [][(ResolveRefsStep /\ opts.offline) =>
          /\ pulls' = pulls
          /\ cache' = cache
          /\ \A i \in 1..Len(last'.refs) :
                LET pin == Pin(last'.refs[i])
                IN  (pin.pinned /\ (ResolvedAt(i) \/ FailedAt(i))) =>
                       IF WasmExists(cache, pin.dir)
                       THEN /\ ResolvedAt(i)
                            /\ ~last'.results[i].fetched_from_network
                            /\ last'.results[i].resolved_digest = pin.digest
                       ELSE /\ FailedAt(i)
                            /\ FailedWith("OfflineMissing")
                            /\ last'.r.err.digest = pin.digest
                            /\ StartsWith(last'.r.err.digest, "sha256:")]_vars

\* C5 witness: an offline resolver answered a pinned reference from the cache.
C5_Witness ==
    /\ opts.offline
    /\ last.op = "resolve_refs"
    /\ last.refs = <<Pinned1>>
    /\ last.r.ok
    /\ ~last.results[1].fetched_from_network
    /\ pulls = 0

\* C6: in the resolver with allow_tags = false, a reference that parses and
\* has no digest fails with DigestRequired whenever the call gets to it,
\* offline or not and whatever the cache holds; resolving it pulls nothing
\* and writes nothing (the pulls and the writes of the call are those of the
\* references fetched before it).
C6_TagsRejected ==
    [][(ResolveRefsStep /\ ~opts.allow_tags) =>
          /\ \A i \in 1..Len(last'.refs) :
                Pin(last'.refs[i]).tag_only =>
                   /\ ~ResolvedAt(i)
                   /\ FailedAt(i) => FailedWith("DigestRequired")
          /\ FailedWith("DigestRequired") =>
                /\ Pin(last'.refs[Len(last'.results) + 1]).tag_only
                /\ pulls' = pulls + Cardinality(FetchedResults)
                /\ OnlyFetchedWrites
                /\ Len(last'.results) = 0 => (pulls' = pulls /\ cache' = cache)]_vars

\* C6 witness: an offline resolver with a non-empty cache rejected a tag.
C6_Witness ==
    /\ ~opts.allow_tags
    /\ opts.offline
    /\ cache # EmptyCache
    /\ last.op = "resolve_refs"
    /\ last.refs[1] = Tagged
    /\ Failed("DigestRequired")

\* C7: a pinned reference that resolve_refs fetched is cached under its
\* pinned digest; the entry stays until remove_cached names it; and while it
\* is there every resolve_refs of the reference answers from the cache
\* (fetched_from_network = false, the same digest and path) without a pull:
\* the pulls of a call are those of the references it fetched, and the one
\* of the reference that failed after its pull.
C7_RepeatHitsCache ==
    [][/\ ResolveRefsStep =>
            /\ \A i \in 1..Len(last'.refs) :
                  LET pin == Pin(last'.refs[i])
                  IN  pin.pinned =>
                         /\ ResolvedAt(i) =>
                               /\ last'.results[i].resolved_digest = pin.digest
                               /\ last'.results[i].path = artifact_path(pin.digest)
                               /\ WasmExists(cache', pin.dir)
                               /\ WasmExists(cache, pin.dir)
                                     => ~last'.results[i].fetched_from_network
                               /\ \A j \in 1..(i - 1) :
                                     last'.refs[j] = last'.refs[i]
                                        => ~last'.results[i].fetched_from_network
                         /\ WasmExists(cache, pin.dir) => ~FailedAt(i)
            /\ pulls' = pulls + Cardinality(FetchedResults)
                         + (IF \/ FailedWith("PullFailed")
                               \/ FailedWith("MissingLayers")
                               \/ FailedWith("DigestMismatch")
                            THEN 1 ELSE 0)
       /\ \A n \in DOMAIN cache :
            (WasmExists(cache, n) /\ ~WasmExists(cache', n)) =>
               /\ last'.op = "remove_cached"
               /\ \E k \in 1..Len(last'.digests) :
                     component_dirname(last'.digests[k]) = n]_vars

\* C7 witness: a pinned reference was answered from the entry that a pull of
\* the same reference wrote earlier in the run.
C7_Witness ==
    /\ last.op = "resolve_refs"
    /\ last.refs = <<Pinned1>>
    /\ last.r.ok
    /\ ~last.results[1].fetched_from_network
    /\ pulls >= 1
    /\ Unwrap(cache[artifact_dirname(D1)].meta).original_reference = Pinned1
    /\ Unwrap(cache[artifact_dirname(D1)].meta).manifest_digest = None

(***************************************************************************)
(* Vocabulary for DistClient's properties: how the reference of the step's *)
(* call classifies in the state the call started in.                       *)
(***************************************************************************)
KindOf(reference) == classify_reference(cache, files, reference)

IsKind(reference, kind) == KindOf(reference).ok /\ KindOf(reference).val.kind = kind

\* C8: with offline = true, resolve_ref of an OCI reference that is pinned
\* by digest and whose digest is cached succeeds with fetched = false and
\* the cached path.
C8_OfflineOciHit ==
    [][(/\ last'.op = "resolve_ref"
        /\ opts.offline
        /\ IsKind(last'.reference, "Oci")
        /\ IsPinned(KindOf(last'.reference).val.val)
        /\ WasmExists(cache, artifact_dirname(
                                 PinnedDigest(KindOf(last'.reference).val.val)))) =>
          /\ last'.r.ok
          /\ ~last'.r.val.fetched
          /\ last'.r.val.cache_path =
                Some(artifact_path(PinnedDigest(KindOf(last'.reference).val.val)))]_vars

\* C9: ensure_cached returns Ok only with cache_path = Some(p) where p
\* exists when it returns; for a digest reference that is not cached it
\* fails with CacheMiss carrying the reference, and a call that fails with
\* CacheMiss leaves the cache as it was.
C9_EnsureCached ==
    [][last'.op = "ensure_cached" =>
          /\ last'.r.ok =>
                /\ IsSome(last'.r.val.cache_path)
                /\ PathExists(cache', files', Unwrap(last'.r.val.cache_path))
          /\ (/\ IsKind(last'.reference, "Digest")
              /\ ~WasmExists(cache, component_dirname(last'.reference))) =>
                /\ FailedWith("CacheMiss")
                /\ last'.r.err.reference = last'.reference
          /\ FailedWith("CacheMiss") =>
                /\ IsKind(last'.reference, "Digest")
                /\ cache' = cache]_vars

\* C9 witness: ensure_cached of a digest that a non-empty cache does not hold
\* failed with CacheMiss.
C9_Witness ==
    /\ last.op = "ensure_cached"
    /\ last.reference = D1
    /\ Failed("CacheMiss")
    /\ cache # EmptyCache
    /\ ~WasmExists(cache, component_dirname(D1))

\* C10: resolve_ref returns Ok with cache_path = None exactly when the
\* reference classifies as Digest and the cache holds no component.wasm for
\* it; a Digest reference gives no error, no GET and no pull, fetched =
\* false, and an unchanged cache.
C10_DigestLookup ==
    [][last'.op = "resolve_ref" =>
          /\ (last'.r.ok /\ IsNone(last'.r.val.cache_path))
                <=> (/\ IsKind(last'.reference, "Digest")
                     /\ ~WasmExists(cache, component_dirname(last'.reference)))
          /\ IsKind(last'.reference, "Digest") =>
                /\ last'.r.ok
                /\ ~last'.r.val.fetched
                /\ last'.r.val.digest = normalize_digest(last'.reference)
                /\ WasmExists(cache, component_dirname(last'.reference)) =>
                      last'.r.val.cache_path = Some(component_path(last'.reference))
                /\ cache' = cache
                /\ pulls' = pulls
                /\ gets' = gets]_vars

\* C10 witness: resolve_ref of a digest the cache does not hold returned Ok
\* without a path.
C10_Witness ==
    /\ last.op = "resolve_ref"
    /\ last.reference = D1
    /\ last.r.ok
    /\ IsNone(last.r.val.cache_path)
    /\ ~WasmExists(cache, component_dirname(D1))

(***************************************************************************)
(* The cache directory: dangling directories, interrupted writes, gc.      *)
(***************************************************************************)
\* The directory of digest is there and holds no component.wasm.
IsDangling(c, digest) == component_dirname(digest) \in Dangling(c)

\* C11: a directory without component.wasm, with or without metadata.json,
\* satisfies no lookup: resolve_ref of its digest returns Ok with cache_path
\* None, ensure_cached and fetch_digest fail with CacheMiss, and the OCI
\* resolver goes to the registry for a reference pinned to it (one pull, and
\* no result that is not fetched), or fails with OfflineMissing when offline.
C11_DanglingNeverHits ==
    [][/\ (last'.op = "resolve_ref" /\ IsKind(last'.reference, "Digest")
              /\ IsDangling(cache, last'.reference)) =>
             last'.r.ok /\ IsNone(last'.r.val.cache_path)
       /\ (last'.op = "ensure_cached" /\ IsKind(last'.reference, "Digest")
              /\ IsDangling(cache, last'.reference)) =>
             FailedWith("CacheMiss")
       /\ (last'.op = "fetch_digest" /\ IsDangling(cache, last'.digest)) =>
             FailedWith("CacheMiss")
       /\ (last'.op = "resolve_refs" /\ last'.refs = <<Pinned1>>
              /\ IsDangling(cache, D1)) =>
             /\ opts.offline => FailedWith("OfflineMissing") /\ pulls' = pulls
             /\ ~opts.offline => pulls' = pulls + 1
             /\ last'.r.ok => last'.r.val[1].fetched_from_network]_vars

\* C11 witness: the resolver, offline, failed on a reference pinned to a
\* digest whose directory holds metadata.json and no component.wasm.
C11_Witness ==
    /\ last.op = "resolve_refs"
    /\ Failed("OfflineMissing")
    /\ IsDangling(cache, D1)
    /\ IsSome(cache[component_dirname(D1)].meta)

\* C12: whatever the point at which a cache write was cut short, a lookup
\* that succeeds afterwards finds the complete bytes of an artifact: when
\* fetch_digest returns a path, the component.wasm at that path holds a
\* whole artifact, never a part of one.
C12_InterruptedWriteSafe ==
    [][(last'.op = "fetch_digest" /\ last'.r.ok) =>
          /\ last'.r.val = component_path(last'.digest)
          /\ Unwrap(cache'[component_dirname(last'.digest)].wasm) \in Blobs]_vars

\* C13: a component.wasm that exists keeps its bytes through every operation
\* other than remove_cached and gc: after resolve_ref, ensure_cached,
\* fetch_digest, pull_lock and list_cache the file is still there, with the
\* content it had.
C13_Immutable ==
    [][last'.op \notin {"remove_cached", "gc"} =>
          \A n \in DOMAIN cache :
              IsSome(cache[n].wasm) =>
                  n \in DOMAIN cache' /\ cache'[n].wasm = cache[n].wasm]_vars

\* C14: when gc has returned, every directory of the cache holds a
\* component.wasm, and the digests gc returned are those of the directories
\* that were there before the call and are gone after it.
C14_GcSound ==
    [][last'.op = "gc" =>
          /\ Dangling(cache') = {}
          /\ last'.r.ok
          /\ last'.r.val = {"sha256:" \o n : n \in DOMAIN cache \ DOMAIN cache'}]_vars

(***************************************************************************)
(* pull_lock, entry by entry.                                              *)
(***************************************************************************)
PullLockStep == last'.op = "pull_lock" /\ IsSome(last'.contents)
                   /\ Unwrap(last'.contents).t = "array"

\* The entries of the lockfile of the step, as written and as parsed.
Written == Unwrap(last'.contents).arr
Parsed == Resolved(Written)

\* The iterations of the loop, each on the world the one before left: the
\* outcome of entry k is at position k.  An iteration after a failed one
\* starts from what the failed one left.
RECURSIVE StepsFrom(_, _)
StepsPush(out, k) == <<out>> \o StepsFrom(out.w, k + 1)
StepsFrom(w, k) ==
    IF k > Len(Parsed) THEN <<>>
    ELSE StepsPush(pull_lock_entry(w, files, opts, Parsed[k], last'.env), k)

Steps == StepsFrom(Here, 1)

\* The world before the iteration of entry k.
Before(steps, k) == IF k = 1 THEN Here ELSE steps[k - 1].w

\* The first entry whose iteration fails; 0 when none does.
FirstFailing(steps) ==
    LET failing == {k \in 1..Len(steps) :
                       /\ ~steps[k].r.ok
                       /\ \A j \in 1..(k - 1) : steps[j].r.ok}
    IN  IF failing = {} THEN 0 ELSE CHOOSE k \in failing : TRUE

\* A successful pull_lock went through steps.
InOrder(steps) ==
    /\ Len(last'.r.val) = Len(Written)
    /\ \A k \in 1..Len(Written) :
          /\ steps[k].r.ok
          /\ last'.r.val[k] = steps[k].r.val
    /\ World(cache', pulls', gets') = Before(steps, Len(Written) + 1)

\* C15: a successful pull_lock returns one artifact per entry, in the order
\* of the lockfile, and handles the entries one after the other: the
\* artifact at position k is what the iteration of entry k gives on the
\* cache that entries 1..k-1 left, and the cache, GETs and pulls at the end
\* are those left by the last entry.
C15_DocumentOrder ==
    [][(PullLockStep /\ last'.r.ok) => \A steps \in {Steps} : InOrder(steps)]_vars

\* C15 witness: two entries pulled on an empty cache; the first was fetched
\* from its URL and cached, and the second, pinned to the digest of what the
\* first fetched, was found in the cache the first had written, its file
\* unread.
C15_Witness ==
    /\ last.op = "pull_lock"
    /\ last.r.ok
    /\ last.contents = Some(JArray(<<JString(HttpUrl), PinnedFile>>))
    /\ last.r.val[1].source = ArtifactSource("Http", HttpUrl)
    /\ last.r.val[2].source = ArtifactSource("Digest", None)
    /\ ~last.r.val[2].fetched
    /\ DOMAIN cache = {component_dirname(D2)}

\* The digest of the artifact of entry k is the entry's own, or else that of
\* resolve_ref of its reference.
DigestOf(steps, k) ==
    IF IsSome(Parsed[k].digest)
    THEN last'.r.val[k].digest = Unwrap(Parsed[k].digest)
    ELSE \E first \in {resolve_ref(Before(steps, k), files, opts,
                                   Unwrap(Parsed[k].reference), last'.env)} :
            first.r.ok /\ last'.r.val[k].digest = first.r.val.digest

AllDigests(steps) == \A k \in 1..Len(Written) : DigestOf(steps, k)

\* C16: in what a successful pull_lock returns, the digest of the artifact
\* of an entry that has a digest is that digest, as written, whatever the
\* resolution of its reference computed; the digest of the artifact of an
\* entry without one is the digest that resolve_ref of its reference gives
\* when the entry's turn comes.
C16_DigestPrecedence ==
    [][(PullLockStep /\ last'.r.ok) => \A steps \in {Steps} : AllDigests(steps)]_vars

\* C16 witness: the entry pinned to D2 was not in the cache and its file was
\* read; the bytes hash to D1 and are cached under D1, and the artifact
\* returned carries D2.
C16_Witness ==
    /\ last.op = "pull_lock"
    /\ last.r.ok
    /\ last.contents = Some(JArray(<<PinnedFile>>))
    /\ last.r.val[1].digest = D2
    /\ last.r.val[1].source = ArtifactSource("File", SrcFile)
    /\ last.r.val[1].cache_path = Some(component_path(D1))

\* pull_lock failed at entry k and went no further; k = 0: it did not fail.
FailsAt(steps, k) ==
    /\ last'.r.ok <=> k = 0
    /\ ~last'.r.ok =>
          /\ last'.r = steps[k].r
          /\ World(cache', pulls', gets') = steps[k].w
          /\ \A j \in 1..(k - 1) :
                /\ IsSome(steps[j].r.val.cache_path)
                /\ PathExists(cache', files, Unwrap(steps[j].r.val.cache_path))

FailsFast(steps) == \A k \in {FirstFailing(steps)} : FailsAt(steps, k)

\* C17: pull_lock fails when, and only when, some entry fails in its turn,
\* and then with the error of the first such entry and no list of
\* artifacts; the cache, the GETs and the pulls at the end are those of the
\* failing entry's own attempt on top of the entries before it, so that no
\* later entry was fetched or cached, and every component.wasm that the
\* earlier entries returned is still in the cache.
C17_FailFast ==
    [][PullLockStep => \A steps \in {Steps} : FailsFast(steps)]_vars

\* C17 witness: the first entry was read from its file and cached, and the
\* second has no reference; pull_lock failed with InvalidInput, the first
\* entry's component.wasm is in the cache, and no GET was sent.
C17_Witness ==
    /\ last.op = "pull_lock"
    /\ Len(Unwrap(last.contents).arr) >= 2
    /\ Unwrap(last.contents).arr[1] = JString(SrcFile)
    /\ IsNone(to_resolved(Unwrap(last.contents).arr[2]).reference)
    /\ Failed("InvalidInput")
    /\ WasmExists(cache, component_dirname(D1))
    /\ gets = 0

\* The first entry that has a reference and no digest; 0 when there is none.
FirstUnpinned ==
    LET unpinned == {k \in 1..Len(Parsed) :
                        /\ IsSome(Parsed[k].reference)
                        /\ IsNone(Parsed[k].digest)
                        /\ \A j \in 1..(k - 1) : IsSome(Parsed[j].digest)}
    IN  IF unpinned = {} THEN 0 ELSE CHOOSE k \in unpinned : TRUE

\* Offline, pull_lock got to entry k, which has no digest, and stopped there.
OfflineAt(steps, k) ==
    (\A j \in 1..(k - 1) : steps[j].r.ok) =>
        /\ last'.r = Err([kind |-> "Offline", reference |-> Unwrap(Parsed[k].reference)])
        /\ World(cache', pulls', gets') = Before(steps, k)

\* C18: offline, when the entries before the first entry without a digest
\* have all been pulled, pull_lock fails with Offline naming the reference
\* of that entry, be it a URL or the path of a local file, and the cache,
\* the GETs and the pulls are as the entries before it left them: nothing
\* was read, fetched or cached for the entry.
C18_OfflineUnpinned ==
    [][(PullLockStep /\ opts.offline /\ FirstUnpinned > 0) =>
          \A steps \in {Steps}, k \in {FirstUnpinned} : OfflineAt(steps, k)]_vars

\* C18 witness: offline, the pinned first entry was pulled and the second,
\* the bare path of a readable local file, failed with Offline naming the
\* path.
C18_Witness ==
    /\ last.op = "pull_lock"
    /\ opts.offline
    /\ Unwrap(last.contents).arr = <<PinnedFile, JString(SrcFile)>>
    /\ last.r = Err([kind |-> "Offline", reference |-> SrcFile])
    /\ gets = 0

(***************************************************************************)
(* Exit codes.                                                             *)
(***************************************************************************)
\* What an error is about, whichever layer raised it: an error of the OCI
\* resolver, which DistClient hands on wrapped in DistError::Oci, is about
\* what the resolver's error is about.
Cause(err) == IF err.kind = "Oci" THEN err.source.kind ELSE err.kind

\* The exit code the table gives for an error.
TableCode(err) ==
    CASE Cause(err) \in {"InvalidReference", "InvalidInput", "Serde"} -> 2
      [] Cause(err) = "CacheMiss" -> 3
      [] Cause(err) \in {"Offline", "OfflineMissing", "OfflineTaggedReference"} -> 4
      [] Cause(err) = "AuthRequired" -> 5
      [] OTHER -> 10

\* C19: the exit code of every error a DistClient operation returns is the
\* one the table gives for what the error is about: 2 for an invalid
\* reference, invalid input or a lockfile that is not valid JSON, 3 for a
\* cache miss, 4 for an offline violation, 5 for auth required, and 10 for
\* the rest, errors of the OCI resolver included.
C19_ExitCodes ==
    ("r" \in DOMAIN last /\ ~last.r.ok) =>
        exit_code(last.r.err) = TableCode(last.r.err)

(***************************************************************************)
(* Layer selection.                                                        *)
(***************************************************************************)
\* The least element of a non-empty set of numbers.
Least(S) == CHOOSE i \in S : \A j \in S : i <= j

\* The positions in the preference list of the types that some layer has,
\* and the positions in the layer list of the layers of type ty.
Matching(layers, preferred_types) ==
    {k \in 1..Len(preferred_types) :
        \E i \in 1..Len(layers) : layers[i].media_type = preferred_types[k]}

OfType(layers, ty) == {i \in 1..Len(layers) : layers[i].media_type = ty}

\* What selection over layers and preferred_types is to return.
Selected(layers, preferred_types) ==
    IF Matching(layers, preferred_types) = {}
    THEN layers[1]
    ELSE layers[Least(OfType(layers,
                             preferred_types[Least(Matching(layers, preferred_types))]))]

\* C20: select_layer fails with MissingLayers on an empty layer list;
\* otherwise it returns the first layer whose media type is the first entry
\* of the preference list that is the type of some layer, and the first
\* layer when no entry is.
C20_LayerSelection ==
    last.op = "select_layer" =>
        IF last.layers = <<>>
        THEN last.r = Err([kind |-> "MissingLayers", reference |-> Pinned1])
        ELSE last.r = Ok(Selected(last.layers, last.preferred_types))

\* C20 witness: of two layers whose types are both preferred, the second
\* was selected, its type coming earlier in the preference list.
C20_Witness ==
    /\ last.op = "select_layer"
    /\ Len(last.layers) = 2
    /\ Matching(last.layers, last.preferred_types) # {}
    /\ \A i \in 1..2 :
          \E k \in 1..Len(last.preferred_types) :
              last.layers[i].media_type = last.preferred_types[k]
    /\ last.r = Ok(last.layers[2])
    /\ last.layers[2] # last.layers[1]

(***************************************************************************)
(* Repeated resolution.                                                    *)
(***************************************************************************)
\* The step resolves, with success, the file or URL that the step before it
\* resolved with success, and the source holds what it held then.
ResolvedAgain ==
    /\ last.op = "resolve_ref" /\ last.r.ok
    /\ last'.op = "resolve_ref" /\ last'.r.ok
    /\ last'.reference = last.reference
    /\ last'.reference \in {SrcFile, HttpUrl}
    /\ last'.files = last.files
    /\ last'.env = last.env

\* C21: the second of two successive resolutions of one file or URL whose
\* content did not change returns the digest the first returned, and leaves
\* the cache with the directories and the file contents it had.
C21_Idempotent ==
    [][ResolvedAgain =>
          /\ last'.r.val.digest = last.r.val.digest
          /\ last'.r.val.cache_path = last.r.val.cache_path
          /\ cache' = cache]_vars

\* C21 witness: the URL was fetched a second time, with the same answer.
C21_Witness ==
    /\ last.op = "resolve_ref"
    /\ last.reference = HttpUrl
    /\ last.r.ok
    /\ last.again
    /\ gets = 2

(***************************************************************************)
(* What a write leaves in a cache directory.                               *)
(***************************************************************************)
\* C22: every directory that the completed writes of the client's
\* operations (file ingest, HTTP fetch, OCI resolution) leave in the cache
\* holds component.wasm and, beside it, metadata.json.
C22_SidecarWritten ==
    \A n \in DOMAIN cache : IsSome(cache[n].wasm) /\ IsSome(cache[n].meta)

(***************************************************************************)
(* Digests and directory names.                                            *)
(***************************************************************************)
Prefixed(digest) == StartsWith(digest, "sha256:")

\* C23: no directory of the cache has a name that starts with sha256:, and
\* every digest the client hands out or records starts with it: the digest
\* of the artifact of resolve_ref and ensure_cached, of each artifact of
\* pull_lock, the digests of list_cache and gc, and resolved_digest in
\* metadata.json.
C23_NormalizedNaming ==
    /\ \A n \in DOMAIN cache :
          /\ ~Prefixed(n)
          /\ IsSome(cache[n].meta) => Prefixed(Unwrap(cache[n].meta).resolved_digest)
    /\ (last.op \in {"resolve_ref", "ensure_cached"} /\ last.r.ok) =>
          Prefixed(last.r.val.digest)
    /\ (last.op = "pull_lock" /\ last.r.ok) =>
          \A i \in 1..Len(last.r.val) : Prefixed(last.r.val[i].digest)
    /\ last.op \in {"list_cache", "gc"} =>
          \A digest \in last.r.val : Prefixed(digest)

(***************************************************************************)
(* Concurrent writers.                                                     *)
(***************************************************************************)
AllDone == writers # NoWriters /\ \A w \in DOMAIN writers : writers[w].pc = "done"

\* C24: when two writers of the same bytes under the same digest have both
\* finished, in whatever order their file-system calls were made, each has
\* returned Ok with the path of component.wasm under the digest, the same
\* for both, and component.wasm holds the bytes.
C24_SameBytesRace ==
    AllDone =>
        /\ \A w \in DOMAIN writers :
              writers[w].r = Some(Ok(component_path(digest_for_bytes(writers[w].data))))
        /\ writers[1].r = writers[2].r
        /\ cache[RaceDir].wasm = Some(writers[1].data)

\* C24 witness: both writers have finished, and one of them truncated the
\* file while the other was between two of its write calls.
C24_Witness ==
    /\ AllDone
    /\ last.op = "write"
    /\ last.raced

(***************************************************************************)
(* Classification.                                                         *)
(***************************************************************************)
Classified == last.op = "classify_reference"

\* What the string is when no URL scheme decides: an existing path, else an
\* OCI reference, else nothing.
ByPath(input) ==
    IF PathExists(cache, files, input) THEN Ok(RefKind("File", input))
    ELSE IF ParseReference(input).ok THEN Ok(RefKind("Oci", input))
    ELSE Err([kind |-> "InvalidReference", reference |-> input])

IsScheme(input, schemes) ==
    IsSome(UrlScheme(input)) /\ Unwrap(UrlScheme(input)) \in schemes

\* The kind the precedence gives when every URL of scheme file is a File.
KindByScheme(input) ==
    IF is_digest(input) THEN "Digest"
    ELSE IF IsScheme(input, {"http", "https"}) THEN "Http"
    ELSE IF IsScheme(input, {"file"}) THEN "File"
    ELSE IF IsScheme(input, {"oci"}) THEN "Oci"
    ELSE IF IsScheme(input, {"repo"}) THEN "Repo"
    ELSE IF IsScheme(input, {"store"}) THEN "Store"
    ELSE IF ByPath(input).ok THEN ByPath(input).val.kind
    ELSE "InvalidReference"

\* C25: classification gives Digest for the digest form; else Http, File,
\* Oci, Repo or Store for a URL of scheme http or https, file, oci, repo or
\* store; else File for an existing path; else Oci for a string that parses
\* as an OCI reference; else InvalidReference.
C25_Classification ==
    Classified =>
        KindByScheme(last.input)
           = IF last.r.ok THEN last.r.val.kind ELSE last.r.err.kind

\* The precedence, with the file URLs that convert to a local path.
Precedence(input) ==
    IF is_digest(input) THEN Ok(RefKind("Digest", normalize_digest(input)))
    ELSE IF IsScheme(input, {"http", "https"}) THEN Ok(RefKind("Http", input))
    ELSE IF IsScheme(input, {"file"}) /\ IsSome(UrlToFilePath(input))
    THEN Ok(RefKind("File", Unwrap(UrlToFilePath(input))))
    ELSE IF IsScheme(input, {"oci"})
    THEN Ok(RefKind("Oci", TrimStartMatches(input, "oci://")))
    ELSE IF IsScheme(input, {"repo"}) THEN Ok(RefKind("Repo", input))
    ELSE IF IsScheme(input, {"store"}) THEN Ok(RefKind("Store", input))
    ELSE ByPath(input)

\* C25, amended: the same precedence, where a URL of scheme file is a File
\* when it converts to a local path, and otherwise is classified as a
\* string with an unknown scheme is: by path existence, then as an OCI
\* reference, then InvalidReference.  A URL of a known scheme that is also
\* the name of an existing path is classified by its scheme.
C25_ClassificationPrecedence ==
    Classified => last.r = Precedence(last.input)

\* C25 witness: a file URL with a host was classified, and is no File.
C25_Witness ==
    /\ Classified
    /\ last.input = RemoteFileUrl
    /\ ~(last.r.ok /\ last.r.val.kind = "File")

(***************************************************************************)
(* Removal.                                                                *)
(***************************************************************************)
\* The directories of the digests of a list.
Listed(digests) == {component_dirname(digests[i]) : i \in 1..Len(digests)}

C27_AuthRequired ==
    [][(last'.op = "resolve_ref" /\ IsScheme(last'.reference, {"repo", "store"})) =>
          /\ last'.r = Err([kind |-> "AuthRequired", target |-> last'.reference])
          /\ cache' = cache
          /\ pulls' = pulls
          /\ gets' = gets]_vars

\* C27 witness: offline, resolve_ref of a store reference failed with
\* AuthRequired.
C27_Witness ==
    /\ last.op = "resolve_ref"
    /\ last.reference = StoreRef
    /\ opts.offline
    /\ Failed("AuthRequired")

(***************************************************************************)
(* The default cache root.                                                 *)
(***************************************************************************)
\* C28: the default cache root is GREENTIC_DIST_CACHE_DIR when that is set;
\* else GREENTIC_HOME/cache/components when GREENTIC_HOME is set; else
\* greentic/components under the user cache directory of the operating
\* system when that is known; else .greentic/cache/components.
C28_CacheRootPrecedence ==
    last.op = "default_cache_root" =>
        last.r = IF IsSome(last.env.GREENTIC_DIST_CACHE_DIR)
                 THEN Unwrap(last.env.GREENTIC_DIST_CACHE_DIR)
                 ELSE IF IsSome(last.env.GREENTIC_HOME)
                 THEN PathJoin(PathJoin(Unwrap(last.env.GREENTIC_HOME), "cache"),
                               "components")
                 ELSE IF IsSome(last.env.cache_dir)
                 THEN PathJoin(PathJoin(Unwrap(last.env.cache_dir), "greentic"),
                               "components")
                 ELSE PathJoin(PathJoin(".greentic", "cache"), "components")

(***************************************************************************)
(* The order of the resolver's checks.                                     *)
(***************************************************************************)
\* The digest a reference pins, if it pins one.
PinnedBy(reference) == ParseReference(reference).digest

\* The digest a pulled image stands for: what the image reports, else what
\* its first layer reports, else the hash of that layer's bytes.
Reported(image) ==
    IF IsSome(image.digest) THEN Unwrap(image.digest)
    ELSE IF IsSome(image.layers[1].digest) THEN Unwrap(image.layers[1].digest)
    ELSE "sha256:" \o Sha256Hex(image.layers[1].data)

\* The outcomes before the pull, in order: the first that applies on the
\* cache directory c under the options o, or "Pull" when none does.
BeforePull(c, o, reference) ==
    IF ~ParseReference(reference).ok THEN "InvalidReference"
    ELSE IF IsNone(PinnedBy(reference)) /\ ~o.allow_tags THEN "DigestRequired"
    ELSE IF /\ IsSome(PinnedBy(reference))
            /\ WasmExists(c, artifact_dirname(Unwrap(PinnedBy(reference))))
    THEN "Hit"
    ELSE IF o.offline /\ IsSome(PinnedBy(reference)) THEN "OfflineMissing"
    ELSE IF o.offline THEN "OfflineTaggedReference"
    ELSE "Pull"

\* The outcomes of the pull and after it, in order.
AfterPull(reference, resp, disk) ==
    IF ~resp.ok THEN "PullFailed"
    ELSE IF resp.val.layers = <<>> THEN "MissingLayers"
    ELSE IF /\ IsSome(PinnedBy(reference))
            /\ Unwrap(PinnedBy(reference)) # Reported(resp.val)
    THEN "DigestMismatch"
    ELSE IF disk = "full" THEN "Io"
    ELSE "Fetched"

FirstOutcome(c, o, reference, resp, disk) ==
    IF BeforePull(c, o, reference) = "Pull"
    THEN AfterPull(reference, resp, disk)
    ELSE BeforePull(c, o, reference)

\* What a resolution of one reference reported.
Reports(r) ==
    IF ~r.ok THEN r.err.kind
    ELSE IF r.val[1].fetched_from_network THEN "Fetched"
    ELSE "Hit"

\* C29: the resolver reports the first outcome that applies among
\* InvalidReference, DigestRequired, the cache hit, OfflineMissing or
\* OfflineTaggedReference, PullFailed, MissingLayers, DigestMismatch and Io on
\* the write; it pulls exactly when none of the outcomes before PullFailed
\* applies, and a DigestMismatch leaves the cache directory as it was.
C29_FixedOrder ==
    [][last'.op = "resolve_single" =>
          /\ Reports(last'.r) = FirstOutcome(cache, opts, last'.reference,
                                             last'.resp, last'.disk)
          /\ pulls' = IF BeforePull(cache, opts, last'.reference) = "Pull"
                      THEN pulls + 1 ELSE pulls
          /\ Reports(last'.r) = "DigestMismatch" => cache' = cache]_vars

\* A pinned reference that is not cached, online, answered by an image that
\* reports another digest and carries no layer: MissingLayers and
\* DigestMismatch both apply and the earlier one is reported.
C29_Witness ==
    /\ last.op = "resolve_single"
    /\ last.reference = Pinned1
    /\ last.resp = Ok(PulledImage(Some(D2), <<>>))
    /\ ~last.r.ok
    /\ last.r.err.kind = "MissingLayers"
    /\ pulls > 0

(***************************************************************************)
(* The digest of a pulled component.                                       *)
(***************************************************************************)
\* C30: after a successful pull the resolved digest is the digest the image
\* reports when it reports one, otherwise the digest the chosen layer
\* reports, otherwise the SHA-256 of the chosen layer's bytes; the cache
\* entry is written under that digest, and manifest_digest is the digest
\* the image reported, or none.
C30_ResolvedDigest ==
    (last.op = "resolve_single" /\ last.r.ok /\ last.r.val[1].fetched_from_network) =>
        \A image \in {last.resp.val}, component \in {last.r.val[1]} :
            /\ IsSome(image.digest) =>
                   component.resolved_digest = Unwrap(image.digest)
            /\ IsNone(image.digest) /\ IsSome(image.layers[1].digest) =>
                   component.resolved_digest = Unwrap(image.layers[1].digest)
            /\ IsNone(image.digest) /\ IsNone(image.layers[1].digest) =>
                   component.resolved_digest = "sha256:" \o Sha256Hex(image.layers[1].data)
            /\ component.manifest_digest = image.digest
            /\ component.path = artifact_path(component.resolved_digest)
            /\ WasmExists(cache, artifact_dirname(component.resolved_digest))
            /\ cache[artifact_dirname(component.resolved_digest)].wasm
                   = Some(image.layers[1].data)
            /\ IsSome(read_metadata(cache, component.resolved_digest))
            /\ Unwrap(read_metadata(cache, component.resolved_digest)).resolved_digest
                   = component.resolved_digest
            /\ Unwrap(read_metadata(cache, component.resolved_digest)).manifest_digest
                   = image.digest

\* A tag reference, tags allowed, answered by an image that reports one
\* digest while its layer reports another: the image's digest names the
\* entry.
C30_Witness ==
    /\ last.op = "resolve_single"
    /\ last.reference = Tagged
    /\ last.resp = Ok(Image(Some(D1), B2, Some(D2)))
    /\ last.r.ok
    /\ last.r.val[1].resolved_digest = D1
    /\ last.r.val[1].manifest_digest = Some(D1)
    /\ WasmExists(cache, artifact_dirname(D1))

\* The same reference answered by an image that reports nothing, on a layer
\* that reports nothing: the entry is named by the hash of the bytes.
C30_WitnessComputed ==
    /\ last.op = "resolve_single"
    /\ last.reference = Tagged
    /\ last.resp = Ok(Image(None, B1, None))
    /\ last.r.ok
    /\ last.r.val[1].resolved_digest = D1
    /\ last.r.val[1].manifest_digest = None

(***************************************************************************)
(* Digests reported by the registry client.                                *)
(***************************************************************************)
\* C31: a digest the registry client reports is brought to the sha256:<hex>
\* form before it is compared with the pinned digest: when the reported
\* digest, normalized, is the pinned one, the resolution does not end in
\* DigestMismatch.
C31_ReportedNormalized ==
    (/\ last.op = "resolve_single"
     /\ IsSome(PinnedBy(last.reference))
     /\ last.resp.ok
     /\ last.resp.val.layers # <<>>
     /\ oci_normalize_digest(Reported(last.resp.val)) = Unwrap(PinnedBy(last.reference)))
        => Reports(last.r) # "DigestMismatch"

(***************************************************************************)
(* What a cache hit returns.                                               *)
(***************************************************************************)
\* The sidecar of an entry as a reader sees it: the record, or none when
\* metadata.json is missing or does not parse.
Sidecar(c, digest) ==
    IF c[artifact_dirname(digest)].meta \in {None, Some(TornMetadata)}
    THEN None
    ELSE c[artifact_dirname(digest)].meta

\* C32: a cache hit returns the media_type and the manifest_digest the
\* sidecar of the entry records, and application/octet-stream and none when
\* metadata.json is missing or does not parse; a pinned reference whose
\* component.wasm is in the cache is a hit whatever the sidecar; and a hit
\* that follows a fetch of the same reference returns what the fetch
\* returned, but for fetched_from_network.
C32_HitReadsSidecar ==
    [][last'.op = "resolve_single" =>
          /\ (/\ IsSome(PinnedBy(last'.reference))
              /\ WasmExists(cache, artifact_dirname(Unwrap(PinnedBy(last'.reference)))))
                 => Reports(last'.r) = "Hit"
          /\ Reports(last'.r) = "Hit" =>
                \A hit \in {last'.r.val[1]} :
                    \A sidecar \in {Sidecar(cache, hit.resolved_digest)} :
                        /\ hit.resolved_digest = Unwrap(PinnedBy(last'.reference))
                        /\ hit.path = artifact_path(hit.resolved_digest)
                        /\ IsSome(sidecar) =>
                               /\ hit.media_type = Unwrap(sidecar).media_type
                               /\ hit.manifest_digest = Unwrap(sidecar).manifest_digest
                        /\ IsNone(sidecar) =>
                               /\ hit.media_type = "application/octet-stream"
                               /\ hit.manifest_digest = None
                        /\ (/\ last.op = "resolve_single"
                            /\ last.reference = last'.reference
                            /\ Reports(last.r) = "Fetched")
                               => hit = [last.r.val[1] EXCEPT
                                            !.fetched_from_network = FALSE]]_vars

\* A hit on an entry a pull wrote, with the media type of the layer and the
\* digest the image reported.
C32_Witness ==
    /\ last.op = "resolve_single"
    /\ last.reference = Pinned1
    /\ pulls > 0
    /\ Reports(last.r) = "Hit"
    /\ last.r.val[1].media_type = "application/wasm"
    /\ last.r.val[1].manifest_digest = Some(D1)
    /\ IsSome(Sidecar(cache, D1))

\* A hit on an entry whose metadata.json does not parse.
C32_WitnessTorn ==
    /\ last.op = "resolve_single"
    /\ Reports(last.r) = "Hit"
    /\ cache[artifact_dirname(D1)].meta = Some(TornMetadata)
    /\ last.r.val[1].media_type = "application/octet-stream"
    /\ last.r.val[1].manifest_digest = None

(***************************************************************************)
(* The reference of a lock entry.                                          *)
(***************************************************************************)
\* The string under a key of an entry object, if the key holds one.
Present(entry, key) ==
    IF key \in DOMAIN entry.obj /\ entry.obj[key].t = "string"
    THEN <<entry.obj[key].str>>
    ELSE <<>>

\* The first of a list as an option.
FirstOf(list) == IF list = <<>> THEN <<>> ELSE <<list[1]>>

\* C33: the reference of an entry object is the first present of reference,
\* ref and digest, and its digest is its digest field; a bare string is its
\* own reference, without a digest; and pull_lock fails with
\* InvalidInput("lock entry missing ref") exactly when the entry is an
\* object with none of the three.
C33_EffectiveReference ==
    last.op = "pull_lock_entry" =>
        /\ last.entry.t = "string" =>
               /\ last.resolved.reference = <<last.entry.str>>
               /\ last.resolved.digest = <<>>
        /\ last.entry.t = "object" =>
               /\ last.resolved.reference =
                      FirstOf(Present(last.entry, "reference")
                              \o Present(last.entry, "ref")
                              \o Present(last.entry, "digest"))
               /\ last.resolved.digest = Present(last.entry, "digest")
        /\ last.r = Err([kind |-> "InvalidInput", msg |-> "lock entry missing ref"])
               <=> /\ last.entry.t = "object"
                   /\ \A key \in EntryKeys : Present(last.entry, key) = <<>>

\* An object with all three keys: the reference key names the entry.
C33_Witness ==
    /\ last.op = "pull_lock_entry"
    /\ last.entry.t = "object"
    /\ DOMAIN last.entry.obj = EntryKeys
    /\ last.entry.obj["reference"] = JString(SrcFile)
    /\ last.resolved.reference = Some(SrcFile)
    /\ last.r.ok

(***************************************************************************)
(* A lock entry whose digest is cached.                                    *)
(***************************************************************************)
\* The server's response to the k-th GET of the call under env.
Answer(env, k) == IF "answers" \in DOMAIN env THEN env.answers[k] ELSE env.get

\* The digest field of an entry, when it is sha256: and 64 hex digits and
\* the cache directory c holds its component.wasm.
PinnedAndCached(c, entry) ==
    /\ entry.t = "object"
    /\ Present(entry, "digest") # <<>>
    /\ is_digest(Present(entry, "digest")[1])
    /\ WasmExists(c, component_dirname(Present(entry, "digest")[1]))

\* C34: for a lock entry whose digest is given as sha256:<64 hex> and is in
\* the cache, pull_lock returns the cached path under that digest and does
\* nothing for the entry's reference: no GET, no pull, no change of the
\* cache directory, and no dependence on the referenced file, which may be
\* gone; online and offline alike.
C34_CachedEntryUntouched ==
    [][(last'.op = "pull_lock_entry" /\ PinnedAndCached(cache, last'.entry)) =>
          /\ last'.r.ok
          /\ Len(last'.r.val) = 1
          /\ last'.r.val[1].digest = Present(last'.entry, "digest")[1]
          /\ last'.r.val[1].cache_path =
                 Some(component_path(Present(last'.entry, "digest")[1]))
          /\ gets' = gets
          /\ pulls' = pulls
          /\ cache' = cache]_vars

\* An entry that points at a URL and pins a cached digest, with the network
\* up and the source file deleted: nothing was fetched.
C34_Witness ==
    /\ last.op = "pull_lock_entry"
    /\ PinnedAndCached(cache, last.entry)
    /\ Present(last.entry, "ref") = <<HttpUrl>>
    /\ Present(last.entry, "reference") = <<>>
    /\ Answer(last.env, 1).ok
    /\ ~opts.offline
    /\ files = <<>>
    /\ gets = 0
    /\ last.r.ok

(***************************************************************************)
(* What gc leaves alone.                                                   *)
(***************************************************************************)
\* C35: gc leaves every directory that holds a component.wasm where it is,
\* with what it holds, and does not return its digest; the directories it
\* removes held no component.wasm, and it creates none.
C35_GcKeepsComponents ==
    [][last'.op = "gc" =>
          /\ last'.r.ok
          /\ \A n \in DOMAIN cache :
                 IsSome(cache[n].wasm) =>
                     /\ n \in DOMAIN cache'
                     /\ cache'[n] = cache[n]
                     /\ ("sha256:" \o n) \notin last'.r.val
          /\ \A n \in DOMAIN cache \ DOMAIN cache' : IsNone(cache[n].wasm)
          /\ \A n \in DOMAIN cache' : n \in DOMAIN cache /\ cache'[n] = cache[n]]_vars

\* gc has returned the digest of a directory without component.wasm and
\* the cache still holds a component, one that has no metadata.json.
C35_Witness ==
    /\ last.op = "gc"
    /\ last.r.val # {}
    /\ \E n \in DOMAIN cache : IsSome(cache[n].wasm) /\ IsNone(cache[n].meta)

(***************************************************************************)
(* The artifacts pull_lock returns.                                        *)
(***************************************************************************)
\* C36: every artifact pull_lock returns has as cache_path the cache
\* location of its digest, component_dir(digest)/component.wasm, and the
\* file there hashes to that digest, also when the pinned digest was not in
\* the cache and the reference was resolved instead.
C36_LockArtifactConsistent ==
    (last.op = "pull_lock_entry" /\ last.r.ok) =>
        \A i \in 1..Len(last.r.val) :
            /\ last.r.val[i].cache_path = Some(component_path(last.r.val[i].digest))
            /\ WasmExists(cache, component_dirname(last.r.val[i].digest))
            /\ digest_for_bytes(Unwrap(cache[component_dirname(last.r.val[i].digest)].wasm))
                   = last.r.val[i].digest

(***************************************************************************)
(* gc beside a writer.                                                     *)
(***************************************************************************)
\* C37: when gc runs beside a write of a digest, in every interleaving gc
\* deletes no directory in which component.wasm has been written, and when
\* both have finished a write that returned Ok has its entry in the cache.
C37_GcBesideWriter ==
    last.op = "gc" =>
        /\ ~last.deleted_written
        /\ (AllDone /\ Unwrap(writers[1].r).ok) =>
               cache[RaceDir].wasm = Some(writers[1].data)

(***************************************************************************)
(* A lock entry without a digest.                                          *)
(***************************************************************************)
\* A step of pull_lock, online, on a bare HTTP URL, that returned Ok.
UnpinnedHttpOk ==
    /\ last'.op = "pull_lock_entry"
    /\ last'.entry = JString(HttpUrl)
    /\ ~opts.offline
    /\ last'.r.ok

C39_TagAlwaysPulls ==
    [][(/\ last'.op = "resolve_single"
        /\ last'.reference = Tagged
        /\ opts.allow_tags
        /\ ~opts.offline) =>
          /\ pulls' = pulls + 1
          /\ Reports(last'.r) # "Hit"
          /\ last'.r.ok => last'.r.val[1].fetched_from_network]_vars

\* A tag reference resolved by a second pull to a digest whose directory an
\* earlier resolution of the same reference had written.
C39_Witness ==
    /\ last.op = "resolve_single"
    /\ last.reference = Tagged
    /\ last.r.ok
    /\ last.r.val[1].fetched_from_network
    /\ pulls >= 2
    /\ artifact_dirname(last.r.val[1].resolved_digest) \in last.before
    /\ artifact_dirname(D2) \in last.before
    /\ last.r.val[1].resolved_digest = D2

(***************************************************************************)
(* What counts as a digest.                                                *)
(***************************************************************************)
HexDigits ==
    {"0", "1", "2", "3", "4", "5", "6", "7", "8", "9", "a", "b", "c", "d", "e", "f",
     "A", "B", "C", "D", "E", "F"}

\* sha256: followed by exactly 64 hex digits.
HexDigest(s) ==
    /\ Len(s) = 71
    /\ SubSeq(s, 1, 7) = "sha256:"
    /\ \A i \in 8..71 : SubSeq(s, i, i) \in HexDigits

\* C40: a reference is classified as Digest exactly when it is sha256:
\* followed by 64 hex digits; a string of 71 characters that starts with
\* sha256: and holds other characters is not a Digest.
C40_DigestForm ==
    Classified =>
        ((last.r.ok /\ last.r.val.kind = "Digest") <=> HexDigest(last.input))

====
